---- MODULE Spec2Model ----
(***************************************************************************)
(* Curacel Claims QA Service: the in-memory document store                 *)
(* (src/src/services/storage_service.py) under concurrent callers, the     *)
(* claim assembler and its field extractors                                *)
(* (src/src/services/extraction_service.py), currency formatting           *)
(* (src/src/utils/helpers.py), the answers of the QA service               *)
(* (src/src/services/qa_service.py) and the handler of POST /ask           *)
(* (src/src/api/routes/ask.py).                                            *)
(*                                                                         *)
(* Strings whose content matters (timestamps, OCR text) are sequences of   *)
(* one-character strings.  Python objects that are shared by reference     *)
(* (the stored dicts) live in `heap`; the store and the callers hold       *)
(* references into it.                                                     *)
(***************************************************************************)
EXTENDS Integers, Sequences, FiniteSets, TLC

\* ------------------------------------------------------------------ bounds

\* The clock runs over half-second ticks 0 .. MaxTick.
MaxTick == 1

\* Total number of store operations invoked in one behaviour.
MaxCalls == 4

\* Longest OCR text given to extract_claim_data, character by character.
MaxTextLen == 3

\* Most lines of a claim document given to extract_claim_data.
MaxLines == 2

\* Longest amount string given to format_currency, character by character,
\* the named examples aside.
MaxAmountLen == 3

\* Longest question of a request to /ask, character by character, the named
\* example aside.
MaxQuestionLen == 2

\* The callers' inputs.
DocumentIds == {"id1", "id2", "id3"}

ClaimData == {"claimA", "claimB"}

\* A behaviour draws its calls from one of these input universes, fixed at
\* the start: three ids with one payload, or two ids with two payloads.
Universes ==
    {[ids |-> DocumentIds, claims |-> {"claimA"}],
     [ids |-> {"id1", "id2"}, claims |-> ClaimData]}

Threads == {1, 2}

NoId == "-"

NoClaim == "-"

\* Python's None where a string is expected (never equal to a string, which
\* is a sequence of one-character strings).
None == <<"None">>

VARIABLES
    CLAIM_STORE,            \* _CLAIM_STORE: document id -> reference
    heap,                   \* reference -> the enriched dict it denotes
    STORAGE_LOCK,           \* _STORAGE_LOCK: TRUE when locked
    clock,                  \* the wall clock at its last reading, in ticks
    DOCUMENTS_PROCESSED,    \* Prometheus counter
    DOCUMENTS_IN_STORAGE,   \* Prometheus gauge
    pc,                     \* per thread: the statement it is at
    call,                   \* per thread: the operation invoked and its arguments
    local,                  \* per thread: claim_data / enriched_data (a reference, 0 if none)
    tmp,                    \* per thread: the value loaded by access_count += 1
    ret,                    \* per thread: what the last call returned or raised
    stored,                 \* history: ids whose store_claim completed, not removed since
    reads,                  \* history: completed successful get_claim calls per id since stored
    ncalls,                 \* history: operations invoked so far
    universe,               \* the input universe of this behaviour
    ocr_text,               \* extract_claim_data: its argument
    xpc,                    \* extract_claim_data: the statement it is at
    cleaned_text,           \* extract_claim_data: cleaned_text (None before line 42)
    ran,                    \* extract_claim_data: the helpers called so far, in order
    outcome,                \* extract_claim_data: what it returned or raised
    claim_data,             \* extract_claim_data: the entries of claim_data built so far
    hashseed,               \* the interpreter's string hash seed, fixed when the process starts
    raised,                 \* history: the exception a helper raised inside the try block
    previous,               \* history: the outcome of the previous call on the same text
    fc_amount,              \* format_currency: its argument
    fc_result,              \* format_currency: what it returned, NoRet before
    apc,                    \* ask_question: the statement it is at
    ask_request,            \* ask_question: the request being handled
    ask_claim,              \* ask_question: claim_data (a reference, 0 if none)
    ask_response,           \* ask_question: the response sent, NoRet before
    ask_previous,           \* history: the request before this one and its response
    ask_steps,              \* history: the steps of the handler for this request, in order
    ERROR_COUNTER,          \* Prometheus counter of /ask errors, per error_type
    REQUEST_COUNTER,        \* Prometheus counter of successful /ask requests
    ppc,                    \* extract_claim_document: the statement it is at
    upload,                 \* extract_claim_document: the uploaded file
    post_response,          \* extract_claim_document: the response sent, NoRet before
    issued,                 \* history: the document ids generated so far
    nd_date_str,            \* _normalize_date: its argument
    nd_result               \* _normalize_date: what it returned, NoRet before

storeVars == <<CLAIM_STORE, heap, STORAGE_LOCK, clock, DOCUMENTS_PROCESSED,
               DOCUMENTS_IN_STORAGE, pc, call, local, tmp, ret, stored, reads, ncalls,
               universe>>

extractVars == <<ocr_text, xpc, cleaned_text, ran, outcome, claim_data, hashseed, raised, previous>>

currencyVars == <<fc_amount, fc_result>>

dateVars == <<nd_date_str, nd_result>>

askVars == <<apc, ask_request, ask_claim, ask_response, ask_previous, ask_steps,
             ERROR_COUNTER, REQUEST_COUNTER>>

postVars == <<ppc, upload, post_response, issued>>

\* The variables of the services above the store.
serviceVars == <<extractVars, currencyVars, dateVars, askVars, postVars>>

vars == <<storeVars, serviceVars>>

\* ------------------------------------------------------------------ strings

\* The characters of a timestamp, in code-point order.
TimeChars == <<"-", ".", "0", "1", "2", "3", "4", "5", "6", "7", "8", "9", ":", "T">>

Ord(c) == CHOOSE i \in 1..Len(TimeChars) : TimeChars[i] = c

Digit(n) == TimeChars[n + 3]

Pad2(n) == <<Digit(n \div 10), Digit(n % 10)>>

Pad6(n) ==
    <<Digit((n \div 100000) % 10), Digit((n \div 10000) % 10), Digit((n \div 1000) % 10),
      Digit((n \div 100) % 10), Digit((n \div 10) % 10), Digit(n % 10)>>

\* Python's str < str: the first differing character decides, a proper prefix is smaller.
RECURSIVE StrLess(_, _)
StrLess(a, b) ==
    IF a = <<>> THEN b # <<>>
    ELSE IF b = <<>> THEN FALSE
    ELSE IF Head(a) = Head(b) THEN StrLess(Tail(a), Tail(b))
    ELSE Ord(Head(a)) < Ord(Head(b))

\* min() / max() of a non-empty collection of strings.
StrMin(S) == CHOOSE s \in S : \A o \in S : ~StrLess(o, s)

StrMax(S) == CHOOSE s \in S : \A o \in S : ~StrLess(s, o)

\* ------------------------------------------------------------------ time

\* datetime.utcnow() at tick c: ticks are half seconds after 2025-01-01T00:00:00.
\* The clock is taken never to step backwards: every reading is at or after
\* the one before it.
utcnow(c) == [second |-> c \div 2, microsecond |-> (c % 2) * 500000]

DatePrefix == <<"2", "0", "2", "5", "-", "0", "1", "-", "0", "1", "T", "0", "0", ":", "0", "0", ":">>

\* datetime.isoformat(): the fraction is left out when microsecond is 0.
isoformat(d) ==
    DatePrefix \o Pad2(d.second)
        \o (IF d.microsecond = 0 THEN <<>> ELSE <<".">> \o Pad6(d.microsecond))

\* The tick a stored timestamp denotes.
TickOf(s) == CHOOSE c \in 0..MaxTick : isoformat(utcnow(c)) = s

\* ------------------------------------------------------------------ heap

Refs == 1..(Cardinality(DocumentIds) + Cardinality(Threads))

Range(f) == {f[x] : x \in DOMAIN f}

NoRet == [kind |-> "none", val |-> 0]

\* The references a configuration still holds.
Live(store, loc, rt) ==
    Range(store) \cup {loc[t] : t \in Threads} \cup
    {rt[t].val : t \in {u \in Threads : rt[u].kind = "ref"}}

\* Objects nobody refers to are freed.
Collect(h, store, loc, rt) == [r \in (DOMAIN h) \cap Live(store, loc, rt) |-> h[r]]

NewRef == CHOOSE r \in Refs \ DOMAIN heap : \A o \in Refs \ DOMAIN heap : r <= o

Metadata(id) == heap[CLAIM_STORE[id]].metadata

\* ------------------------------------------------------------------ lock

\* Lock.acquire() of `with _STORAGE_LOCK:` proceeds only when the lock is free.
LockAcquirable_Unguarded == TRUE

LockAcquirable == ~STORAGE_LOCK

InCS(t) == pc[t] \notin {"idle", "acquire"}

FirstStep(op) ==
    CASE op = "store_claim" -> "store_build"
      [] op = "get_claim" -> "get_lookup"
      [] op = "delete_claim" -> "delete_body"
      [] op = "list_all_claims" -> "list_body"
      [] op = "get_storage_stats" -> "stats_body"
      [] op = "clear_all_claims" -> "clear_body"
      [] op = "document_exists" -> "exists_body"

CallArgs ==
    {[op |-> "store_claim", document_id |-> i, claim_data |-> c] :
            i \in universe.ids, c \in universe.claims}
    \cup {[op |-> o, document_id |-> i, claim_data |-> NoClaim] :
            o \in {"get_claim", "delete_claim", "document_exists"}, i \in universe.ids}
    \cup {[op |-> o, document_id |-> NoId, claim_data |-> NoClaim] :
            o \in {"list_all_claims", "get_storage_stats", "clear_all_claims"}}

NoCall == [op |-> "-", document_id |-> NoId, claim_data |-> NoClaim]

\* ------------------------------------------------------------------ store operations

StoreInit ==
    /\ CLAIM_STORE = [k \in {} |-> 0]
    /\ heap = [r \in {} |-> 0]
    /\ STORAGE_LOCK = FALSE
    /\ clock = 0
    /\ DOCUMENTS_PROCESSED = 0
    /\ DOCUMENTS_IN_STORAGE = 0
    /\ pc = [t \in Threads |-> "idle"]
    /\ call = [t \in Threads |-> NoCall]
    /\ local = [t \in Threads |-> 0]
    /\ tmp = [t \in Threads |-> 0]
    /\ ret = [t \in Threads |-> NoRet]
    /\ stored = {}
    /\ reads = [i \in DocumentIds |-> 0]
    /\ ncalls = 0

\* A request-handling thread invokes a store operation and waits for the
\* lock; the document its previous call returned is dropped.  The arguments
\* take no part in anything before the lock is held, so they are drawn when
\* the body starts.
Call(t) ==
    /\ pc[t] = "idle"
    /\ ncalls < MaxCalls
    /\ pc' = [pc EXCEPT ![t] = "acquire"]
    /\ ret' = [ret EXCEPT ![t] = NoRet]
    /\ heap' = Collect(heap, CLAIM_STORE, local, ret')
    /\ ncalls' = ncalls + 1
    /\ UNCHANGED <<CLAIM_STORE, STORAGE_LOCK, clock, DOCUMENTS_PROCESSED, DOCUMENTS_IN_STORAGE,
                   call, local, tmp, stored, reads>>
    /\ UNCHANGED <<universe, serviceVars>>

\* `with _STORAGE_LOCK:` on entry.
Acquire(t) ==
    /\ pc[t] = "acquire"
    /\ LockAcquirable
    /\ STORAGE_LOCK' = TRUE
    /\ \E c \in CallArgs :
        /\ call' = [call EXCEPT ![t] = c]
        /\ pc' = [pc EXCEPT ![t] = FirstStep(c.op)]
    /\ UNCHANGED <<CLAIM_STORE, heap, clock, DOCUMENTS_PROCESSED, DOCUMENTS_IN_STORAGE,
                   local, tmp, ret, stored, reads, ncalls>>
    /\ UNCHANGED <<universe, serviceVars>>

\* The "_metadata" entry store_claim builds.
NewMetadata_KeepCount(document_id, created_at, last_accessed) ==
    [document_id |-> document_id, created_at |-> created_at, last_accessed |-> last_accessed,
     access_count |-> IF document_id \in DOMAIN CLAIM_STORE
                      THEN Metadata(document_id).access_count ELSE 0]

NewMetadata(document_id, created_at, last_accessed) ==
    [document_id |-> document_id, created_at |-> created_at, last_accessed |-> last_accessed,
     access_count |-> 0]

\* store_claim, the dict display: enriched_data = {**claim_data, "_metadata": {...}}.
\* utcnow() is called twice: each call reads the clock at or after the last reading.
StoreBuild(t) ==
    /\ pc[t] = "store_build"
    /\ \E c1 \in clock..MaxTick : \E c2 \in c1..MaxTick :
        /\ clock' = c2
        /\ heap' = [r \in DOMAIN heap \cup {NewRef} |->
                      IF r = NewRef
                      THEN [claim |-> call[t].claim_data,
                            metadata |-> NewMetadata(call[t].document_id,
                                                     isoformat(utcnow(c1)),
                                                     isoformat(utcnow(c2)))]
                      ELSE heap[r]]
    /\ local' = [local EXCEPT ![t] = NewRef]
    /\ pc' = [pc EXCEPT ![t] = "store_write"]
    /\ UNCHANGED <<CLAIM_STORE, STORAGE_LOCK, DOCUMENTS_PROCESSED, DOCUMENTS_IN_STORAGE,
                   call, tmp, ret, stored, reads, ncalls>>
    /\ UNCHANGED <<universe, serviceVars>>

\* store_claim: _CLAIM_STORE[document_id] = enriched_data, the two metrics, return None.
StoreWrite(t) ==
    /\ pc[t] = "store_write"
    /\ CLAIM_STORE' = [k \in DOMAIN CLAIM_STORE \cup {call[t].document_id} |->
                         IF k = call[t].document_id THEN local[t] ELSE CLAIM_STORE[k]]
    /\ DOCUMENTS_PROCESSED' = DOCUMENTS_PROCESSED + 1
    /\ DOCUMENTS_IN_STORAGE' = Cardinality(DOMAIN CLAIM_STORE')
    /\ local' = [local EXCEPT ![t] = 0]
    /\ ret' = [ret EXCEPT ![t] = [kind |-> "None", val |-> 0]]
    /\ heap' = Collect(heap, CLAIM_STORE', local', ret')
    /\ pc' = [pc EXCEPT ![t] = "exit"]
    /\ UNCHANGED <<STORAGE_LOCK, clock, call, tmp, stored, reads, ncalls>>
    /\ UNCHANGED <<universe, serviceVars>>

\* str(e) of the DocumentNotFoundError get_claim raises.
NotFoundMessage_NoId(document_id) == <<"Document not found">>

NotFoundMessage(document_id) == <<"Document with ID '", document_id, "' not found">>

\* dict.get: _CLAIM_STORE.get(document_id), a reference, or 0 for None.
Lookup(document_id) ==
    IF document_id \in DOMAIN CLAIM_STORE THEN CLAIM_STORE[document_id] ELSE 0

\* get_claim: claim_data = _CLAIM_STORE.get(document_id); raise if it is falsy.
\* A stored dict always has the "_metadata" key, so only None is falsy.
GetLookup(t) ==
    /\ pc[t] = "get_lookup"
    /\ IF Lookup(call[t].document_id) # 0
       THEN /\ local' = [local EXCEPT ![t] = Lookup(call[t].document_id)]
            /\ pc' = [pc EXCEPT ![t] = "get_touch"]
            /\ UNCHANGED ret
       ELSE /\ ret' = [ret EXCEPT ![t] = [kind |-> "DocumentNotFoundError",
                                          val |-> NotFoundMessage(call[t].document_id)]]
            /\ pc' = [pc EXCEPT ![t] = "exit"]
            /\ UNCHANGED local
    /\ UNCHANGED <<CLAIM_STORE, heap, STORAGE_LOCK, clock, DOCUMENTS_PROCESSED,
                   DOCUMENTS_IN_STORAGE, call, tmp, stored, reads, ncalls>>
    /\ UNCHANGED <<universe, serviceVars>>

\* get_claim: claim_data["_metadata"]["last_accessed"] = datetime.utcnow().isoformat()
GetTouch(t) ==
    /\ pc[t] = "get_touch"
    /\ \E c \in clock..MaxTick :
        /\ clock' = c
        /\ heap' = [heap EXCEPT ![local[t]].metadata.last_accessed = isoformat(utcnow(c))]
    /\ pc' = [pc EXCEPT ![t] = "get_incr_load"]
    /\ UNCHANGED <<CLAIM_STORE, STORAGE_LOCK, DOCUMENTS_PROCESSED, DOCUMENTS_IN_STORAGE,
                   call, local, tmp, ret, stored, reads, ncalls>>
    /\ UNCHANGED <<universe, serviceVars>>

\* get_claim: access_count += 1 first loads the current value ...
GetIncrLoad(t) ==
    /\ pc[t] = "get_incr_load"
    /\ tmp' = [tmp EXCEPT ![t] = heap[local[t]].metadata.access_count]
    /\ pc' = [pc EXCEPT ![t] = "get_incr_store"]
    /\ UNCHANGED <<CLAIM_STORE, heap, STORAGE_LOCK, clock, DOCUMENTS_PROCESSED,
                   DOCUMENTS_IN_STORAGE, call, local, ret, stored, reads, ncalls>>
    /\ UNCHANGED <<universe, serviceVars>>

\* ... and the value it stores back.
Incremented_Decrement(n) == n - 1

Incremented_Forgotten(n) == n

Incremented(n) == n + 1

\* get_claim: access_count += 1 stores the sum; return claim_data (the stored dict itself).
GetIncrStore(t) ==
    /\ pc[t] = "get_incr_store"
    /\ heap' = [heap EXCEPT ![local[t]].metadata.access_count = Incremented(tmp[t])]
    /\ ret' = [ret EXCEPT ![t] = [kind |-> "ref", val |-> local[t]]]
    /\ local' = [local EXCEPT ![t] = 0]
    /\ tmp' = [tmp EXCEPT ![t] = 0]
    /\ pc' = [pc EXCEPT ![t] = "exit"]
    /\ UNCHANGED <<CLAIM_STORE, STORAGE_LOCK, clock, DOCUMENTS_PROCESSED, DOCUMENTS_IN_STORAGE,
                   call, stored, reads, ncalls>>
    /\ UNCHANGED <<universe, serviceVars>>

\* delete_claim: the whole body.
DeleteBody(t) ==
    /\ pc[t] = "delete_body"
    /\ IF call[t].document_id \in DOMAIN CLAIM_STORE
       THEN /\ CLAIM_STORE' = [k \in DOMAIN CLAIM_STORE \ {call[t].document_id} |-> CLAIM_STORE[k]]
            /\ DOCUMENTS_IN_STORAGE' = Cardinality(DOMAIN CLAIM_STORE')
            /\ ret' = [ret EXCEPT ![t] = [kind |-> "bool", val |-> TRUE]]
       ELSE /\ ret' = [ret EXCEPT ![t] = [kind |-> "bool", val |-> FALSE]]
            /\ UNCHANGED <<CLAIM_STORE, DOCUMENTS_IN_STORAGE>>
    /\ heap' = Collect(heap, CLAIM_STORE', local, ret')
    /\ pc' = [pc EXCEPT ![t] = "exit"]
    /\ UNCHANGED <<STORAGE_LOCK, clock, DOCUMENTS_PROCESSED, call, local, tmp, stored, reads, ncalls>>
    /\ UNCHANGED <<universe, serviceVars>>

\* list_all_claims: list(_CLAIM_STORE.keys()), a snapshot (the order of the keys is not modelled).
list_all_claims == DOMAIN CLAIM_STORE

ListBody(t) ==
    /\ pc[t] = "list_body"
    /\ ret' = [ret EXCEPT ![t] = [kind |-> "list", val |-> list_all_claims]]
    /\ pc' = [pc EXCEPT ![t] = "exit"]
    /\ UNCHANGED <<CLAIM_STORE, heap, STORAGE_LOCK, clock, DOCUMENTS_PROCESSED,
                   DOCUMENTS_IN_STORAGE, call, local, tmp, stored, reads, ncalls>>
    /\ UNCHANGED <<universe, serviceVars>>

RECURSIVE SumOver(_, _)
SumOver(f, S) ==
    IF S = {} THEN 0
    ELSE LET x == CHOOSE y \in S : TRUE IN f[x] + SumOver(f, S \ {x})

RECURSIVE Gcd(_, _)
Gcd(a, b) == IF b = 0 THEN a ELSE Gcd(b, a % b)

\* The quotient a / b (b > 0) of Python's true division, as a fraction in lowest terms.
Quotient_OffByOne(a, b) ==
    LET g == Gcd(a, b + 1) IN [num |-> a \div g, den |-> (b + 1) \div g]

Quotient(a, b) ==
    LET g == Gcd(a, b) IN [num |-> a \div g, den |-> b \div g]

\* get_storage_stats: the dict it returns for the current store.
get_storage_stats ==
    LET total_documents == Cardinality(DOMAIN CLAIM_STORE)
        access_counts == [i \in DOMAIN CLAIM_STORE |-> Metadata(i).access_count]
        creation_times == {Metadata(i).created_at : i \in DOMAIN CLAIM_STORE}
    IN  IF total_documents = 0
        THEN [total_documents |-> 0, oldest_document |-> None, newest_document |-> None,
              total_access_count |-> 0, avg_access_count |-> [num |-> 0, den |-> 1]]
        ELSE [total_documents |-> total_documents,
              oldest_document |-> IF creation_times # {} THEN StrMin(creation_times) ELSE None,
              newest_document |-> IF creation_times # {} THEN StrMax(creation_times) ELSE None,
              total_access_count |-> SumOver(access_counts, DOMAIN access_counts),
              avg_access_count |->
                  IF DOMAIN access_counts # {}
                  THEN Quotient(SumOver(access_counts, DOMAIN access_counts),
                                Cardinality(DOMAIN access_counts))
                  ELSE [num |-> 0, den |-> 1]]

StatsBody(t) ==
    /\ pc[t] = "stats_body"
    /\ ret' = [ret EXCEPT ![t] = [kind |-> "stats", val |-> get_storage_stats]]
    /\ pc' = [pc EXCEPT ![t] = "exit"]
    /\ UNCHANGED <<CLAIM_STORE, heap, STORAGE_LOCK, clock, DOCUMENTS_PROCESSED,
                   DOCUMENTS_IN_STORAGE, call, local, tmp, stored, reads, ncalls>>
    /\ UNCHANGED <<universe, serviceVars>>

\* clear_all_claims: count = len(_CLAIM_STORE), taken before _CLAIM_STORE.clear().
ClearCount_AfterClear(before, after) == Cardinality(DOMAIN after)

ClearCount(before, after) == Cardinality(DOMAIN before)

ClearBody(t) ==
    /\ pc[t] = "clear_body"
    /\ CLAIM_STORE' = [k \in {} |-> 0]
    /\ DOCUMENTS_IN_STORAGE' = 0
    /\ ret' = [ret EXCEPT ![t] = [kind |-> "int", val |-> ClearCount(CLAIM_STORE, CLAIM_STORE')]]
    /\ heap' = Collect(heap, CLAIM_STORE', local, ret')
    /\ pc' = [pc EXCEPT ![t] = "exit"]
    /\ UNCHANGED <<STORAGE_LOCK, clock, DOCUMENTS_PROCESSED, call, local, tmp, stored, reads, ncalls>>
    /\ UNCHANGED <<universe, serviceVars>>

\* document_exists: document_id in _CLAIM_STORE.
document_exists_Negated(document_id) == document_id \notin DOMAIN CLAIM_STORE

document_exists(document_id) == document_id \in DOMAIN CLAIM_STORE

ExistsBody(t) ==
    /\ pc[t] = "exists_body"
    /\ ret' = [ret EXCEPT ![t] = [kind |-> "bool", val |-> document_exists(call[t].document_id)]]
    /\ pc' = [pc EXCEPT ![t] = "exit"]
    /\ UNCHANGED <<CLAIM_STORE, heap, STORAGE_LOCK, clock, DOCUMENTS_PROCESSED,
                   DOCUMENTS_IN_STORAGE, call, local, tmp, stored, reads, ncalls>>
    /\ UNCHANGED <<universe, serviceVars>>

\* Leaving the `with` block, by return or by raise, releases the lock and
\* completes the call.  The history variables record the completed call.  The
\* caller keeps only a returned document (get_claim's dict); every other
\* result is consumed on return.
Release(t) ==
    /\ pc[t] = "exit"
    /\ STORAGE_LOCK' = FALSE
    /\ pc' = [pc EXCEPT ![t] = "idle"]
    /\ stored' =
        CASE call[t].op = "store_claim" -> stored \cup {call[t].document_id}
          [] call[t].op = "delete_claim" /\ ret[t].val -> stored \ {call[t].document_id}
          [] call[t].op = "clear_all_claims" -> {}
          [] OTHER -> stored
    /\ reads' =
        CASE call[t].op \in {"store_claim", "delete_claim"} /\ ret[t].kind # "bool"
                -> [reads EXCEPT ![call[t].document_id] = 0]
          [] call[t].op = "delete_claim" /\ ret[t].val -> [reads EXCEPT ![call[t].document_id] = 0]
          [] call[t].op = "clear_all_claims" -> [i \in DocumentIds |-> 0]
          [] call[t].op = "get_claim" /\ ret[t].kind = "ref"
                -> [reads EXCEPT ![call[t].document_id] = @ + 1]
          [] OTHER -> reads
    /\ call' = [call EXCEPT ![t] = NoCall]
    /\ ret' = [ret EXCEPT ![t] = IF @.kind = "ref" THEN @ ELSE NoRet]
    /\ UNCHANGED <<CLAIM_STORE, heap, clock, DOCUMENTS_PROCESSED, DOCUMENTS_IN_STORAGE,
                   local, tmp, ncalls>>
    /\ UNCHANGED <<universe, serviceVars>>

StoreNext ==
    \/ \E t \in Threads :
        \/ Call(t)
        \/ Acquire(t)
        \/ StoreBuild(t)
        \/ StoreWrite(t)
        \/ GetLookup(t)
        \/ GetTouch(t)
        \/ GetIncrLoad(t)
        \/ GetIncrStore(t)
        \/ DeleteBody(t)
        \/ ListBody(t)
        \/ StatsBody(t)
        \/ ClearBody(t)
        \/ ExistsBody(t)
        \/ Release(t)

\* ------------------------------------------------------------------ extract_claim_data

\* The characters an OCR text is drawn from: two kinds of whitespace, a
\* letter, and the two characters the normalizer rewrites.
TextChars == {" ", "\n", "a", "0", "|"}

\* str.isspace() / the regex class \s, on TextChars.
IsSpace(c) == c \in {" ", "\n", "\t", "\r"}

RECURSIVE SeqsUpTo(_)
SeqsUpTo(n) ==
    IF n = 0 THEN {<<>>}
    ELSE LET shorter == SeqsUpTo(n - 1)
         IN  shorter \cup {Append(q, c) : q \in {x \in shorter : Len(x) = n - 1}, c \in TextChars}

Texts == SeqsUpTo(MaxTextLen)

RECURSIVE lstrip(_)
lstrip(text) ==
    IF text # <<>> /\ IsSpace(Head(text)) THEN lstrip(Tail(text)) ELSE text

RECURSIVE rstrip(_)
rstrip(text) ==
    IF text # <<>> /\ IsSpace(text[Len(text)]) THEN rstrip(SubSeq(text, 1, Len(text) - 1)) ELSE text

\* str.strip()
strip(text) == rstrip(lstrip(text))

\* re.sub(r'\s+', ' ', text): every maximal run of whitespace becomes one space.
RECURSIVE CollapseSpaces(_)
CollapseSpaces(text) ==
    IF text = <<>> THEN <<>>
    ELSE IF IsSpace(Head(text)) THEN <<" ">> \o CollapseSpaces(lstrip(text))
    ELSE <<Head(text)>> \o CollapseSpaces(Tail(text))

\* str.replace(old, new) for one-character old and new.
Replace(text, old, new) == [k \in 1..Len(text) |-> IF text[k] = old THEN new ELSE text[k]]

\* _clean_ocr_text
clean_ocr_text_NoCollapse(text) == Replace(Replace(strip(text), "|", "I"), "0", "O")

clean_ocr_text(text) == Replace(Replace(CollapseSpaces(strip(text)), "|", "I"), "0", "O")

\* The guard of extract_claim_data: not ocr_text or not ocr_text.strip()
IsBlank_NoStrip(text) == text = <<>>

IsBlank(text) == text = <<>> \/ strip(text) = <<>>

\* The field extractors, in the order the dict display calls them.
Extractors ==
    <<"_extract_patient_info", "_extract_diagnoses", "_extract_medications",
      "_extract_procedures", "_extract_admission_info", "_extract_total_amount">>

ClaimKeys == <<"patient", "diagnoses", "medications", "procedures", "admission", "total_amount">>

\* str(e) of the ExtractionError the except clause raises for the exception e.
Rewrapped(message) == <<"Failed to extract claim data: ", message>>

\* ------------------------------------------------------------------ text and patterns

\* The empty dict and the empty list.
EmptyDict == [k \in {} |-> 0]

LowerCase ==
    <<"a", "b", "c", "d", "e", "f", "g", "h", "i", "j", "k", "l", "m", "n", "o", "p", "q", "r", "s", "t", "u", "v", "w", "x", "y", "z">>

UpperCase ==
    <<"A", "B", "C", "D", "E", "F", "G", "H", "I", "J", "K", "L", "M", "N", "O", "P", "Q", "R", "S", "T", "U", "V", "W", "X", "Y", "Z">>

\* The regex classes [A-Za-z], \d and \s, and \w of the word boundary \b.
Alpha == Range(LowerCase) \cup Range(UpperCase)

DigitChars == {"0", "1", "2", "3", "4", "5", "6", "7", "8", "9"}

SpaceChars == {" ", "\n", "\t", "\r"}

WordChars == Alpha \cup DigitChars \cup {"_"}

LowerOf == [c \in Range(UpperCase) |-> LowerCase[CHOOSE i \in 1..26 : UpperCase[i] = c]]

UpperOf == [c \in Range(LowerCase) |-> UpperCase[CHOOSE i \in 1..26 : LowerCase[i] = c]]

lower_char(c) == IF c \in DOMAIN LowerOf THEN LowerOf[c] ELSE c

upper_char(c) == IF c \in DOMAIN UpperOf THEN UpperOf[c] ELSE c

\* str.lower()
lower(s) == [k \in 1..Len(s) |-> lower_char(s[k])]

\* str.title(): a letter is upper case unless the character before it is a letter.
title(s) ==
    [k \in 1..Len(s) |-> IF k > 1 /\ s[k - 1] \in Alpha THEN lower_char(s[k]) ELSE upper_char(s[k])]

\* str.isdigit()
isdigit(s) == s # <<>> /\ \A k \in 1..Len(s) : s[k] \in DigitChars

DigitValue(c) == CHOOSE n \in 0..9 : Digit(n) = c

\* int(s) for a string of digits.
RECURSIVE int(_)
int(s) ==
    IF s = <<>> THEN 0 ELSE 10 * int(SubSeq(s, 1, Len(s) - 1)) + DigitValue(s[Len(s)])

\* The literal `lit` of a pattern (in lower case) matches text at position i
\* under re.IGNORECASE.
LitAt(text, i, lit) ==
    /\ i + Len(lit) - 1 <= Len(text)
    /\ \A k \in 1..Len(lit) : lower_char(text[i + k - 1]) = lit[k]

\* The position after the longest run of characters of Class that starts at i:
\* where a greedy Class* stops.
RECURSIVE RunEnd(_, _, _)
RunEnd(text, i, Class) ==
    IF i <= Len(text) /\ text[i] \in Class THEN RunEnd(text, i + 1, Class) ELSE i

\* The word boundary \b at position i (between text[i-1] and text[i]).
WordBoundary(text, i) ==
    (i > 1 /\ text[i - 1] \in WordChars) # (i <= Len(text) /\ text[i] \in WordChars)

\* re.search(rf'\b{word}\b', text, re.IGNORECASE) finds a match.
HasWord(text, word) ==
    \E i \in 1..Len(text) :
        LitAt(text, i, word) /\ WordBoundary(text, i) /\ WordBoundary(text, i + Len(word))

Min(S) == CHOOSE x \in S : \A y \in S : x <= y

NoMatch == [ok |-> FALSE]

\* re.search(pattern, text, re.IGNORECASE): the match at the leftmost position
\* where the pattern, given as Pattern(text, i), matches.
Search(text, Pattern(_, _)) ==
    LET hits == {i \in 1..Len(text) : Pattern(text, i).ok}
    IN  IF hits = {} THEN NoMatch ELSE Pattern(text, Min(hits))

\* A pattern of the shape  label\s*(Class+)  where Class contains \s, for a
\* label that is one of Labels: the whitespace after the label goes to \s*
\* unless the whole run is whitespace, which leaves its last character to the
\* group.
LabelledRun(text, i, Labels, Class) ==
    LET heads == {h \in Labels : LitAt(text, i, h)}
    IN  IF heads = {} THEN NoMatch
        ELSE LET j == i + Len(CHOOSE h \in heads : TRUE)
                 e == RunEnd(text, j, Class)
                 w == RunEnd(text, j, SpaceChars)
             IN  IF e = j THEN NoMatch
                 ELSE [ok |-> TRUE, end |-> e,
                       group |-> SubSeq(text, IF w = e THEN e - 1 ELSE w, e - 1)]

\* A pattern of the shape  label\s*(\d+)
LabelledDigits(text, i, label) ==
    IF ~LitAt(text, i, label) THEN NoMatch
    ELSE LET d == RunEnd(text, i + Len(label), SpaceChars)
             e == RunEnd(text, d, DigitChars)
         IN  IF e = d THEN NoMatch ELSE [ok |-> TRUE, end |-> e, group |-> SubSeq(text, d, e - 1)]

\* ------------------------------------------------------------------ _extract_patient_info

\* (?:\n|age|$) at position m.
NameTerminator(text, m) ==
    m = Len(text) + 1 \/ text[m] = "\n" \/ LitAt(text, m, <<"a", "g", "e">>)

\* name_patterns[0]: (?:patient|name|patient name)[:]\s*([A-Za-z\s]+)(?:\n|age|$)
\* The engine tries \s* from its longest to its shortest, and for each the
\* group from its longest to its shortest, until the terminator follows.
NamePattern1(text, i) ==
    LET heads == {h \in {<<"p", "a", "t", "i", "e", "n", "t", ":">>, <<"n", "a", "m", "e", ":">>, <<"p", "a", "t", "i", "e", "n", "t", " ", "n", "a", "m", "e", ":">>} : LitAt(text, i, h)}
    IN  IF heads = {} THEN NoMatch
        ELSE LET j == i + Len(CHOOSE h \in heads : TRUE)
                 e == RunEnd(text, j, Alpha \cup SpaceChars)
                 w == RunEnd(text, j, SpaceChars)
                 tries == {c \in (j..w) \X ((j + 1)..e) : c[2] > c[1] /\ NameTerminator(text, c[2])}
             IN  IF tries = {} THEN NoMatch
                 ELSE LET first == CHOOSE c \in tries : \A d \in tries :
                                       d[1] < c[1] \/ (d[1] = c[1] /\ d[2] <= c[2])
                      IN  [ok |-> TRUE, end |-> first[2], group |-> SubSeq(text, first[1], first[2] - 1)]

\* name_patterns[1]: name[:]\s*([A-Za-z\s]+)
NamePattern2(text, i) == LabelledRun(text, i, {<<"n", "a", "m", "e", ":">>}, Alpha \cup SpaceChars)

\* name_patterns[2]: patient[:]\s*([A-Za-z\s]+)
NamePattern3(text, i) == LabelledRun(text, i, {<<"p", "a", "t", "i", "e", "n", "t", ":">>}, Alpha \cup SpaceChars)

\* age_patterns[0]: age[:]\s*(\d+)
AgePattern1(text, i) == LabelledDigits(text, i, <<"a", "g", "e", ":">>)

\* age_patterns[1]: (\d+)\s*years?\s*old
AgePattern2(text, i) ==
    LET e == RunEnd(text, i, DigitChars)
        y == RunEnd(text, e, SpaceChars)
        s == IF LitAt(text, y, <<"y", "e", "a", "r", "s">>) THEN y + 5 ELSE y + 4
        o == RunEnd(text, s, SpaceChars)
    IN  IF e > i /\ LitAt(text, y, <<"y", "e", "a", "r">>) /\ LitAt(text, o, <<"o", "l", "d">>)
        THEN [ok |-> TRUE, end |-> o + 3, group |-> SubSeq(text, i, e - 1)]
        ELSE NoMatch

\* age_patterns[2]: age\s*(\d+)
AgePattern3(text, i) == LabelledDigits(text, i, <<"a", "g", "e">>)

\* safe_extract_text_field(text, name_patterns): the stripped group of the
\* first pattern that matches, "" when none does.
ExtractedName(text) ==
    LET m1 == Search(text, NamePattern1)
        m2 == Search(text, NamePattern2)
        m3 == Search(text, NamePattern3)
    IN  IF m1.ok THEN strip(m1.group)
        ELSE IF m2.ok THEN strip(m2.group)
        ELSE IF m3.ok THEN strip(m3.group)
        ELSE <<>>

\* safe_extract_text_field(text, age_patterns)
ExtractedAge(text) ==
    LET m1 == Search(text, AgePattern1)
        m2 == Search(text, AgePattern2)
        m3 == Search(text, AgePattern3)
    IN  IF m1.ok THEN strip(m1.group)
        ELSE IF m2.ok THEN strip(m2.group)
        ELSE IF m3.ok THEN strip(m3.group)
        ELSE <<>>

DefaultPatient == [name |-> <<"J", "a", "n", "e", " ", "D", "o", "e">>, age |-> 34]

\* The fallback of _extract_patient_info (lines 114-116): the default
\* replaces a patient_info that is still empty.
PatientOrDefault_PerField(patient_info) ==
    [k \in {"name", "age"} |-> IF k \in DOMAIN patient_info THEN patient_info[k] ELSE DefaultPatient[k]]

PatientOrDefault(patient_info) ==
    IF patient_info = EmptyDict THEN DefaultPatient ELSE patient_info

\* _extract_patient_info
extract_patient_info(text) ==
    LET name == ExtractedName(text)
        age_str == ExtractedAge(text)
        named == IF name # <<>> THEN "name" :> title(name) ELSE EmptyDict
        aged == IF isdigit(age_str) /\ int(age_str) # 0 THEN "age" :> int(age_str) ELSE EmptyDict
    IN  PatientOrDefault(named @@ aged)

\* ------------------------------------------------------------------ lists and sets of strings

\* The characters of the model in code-point order.
CodePointOrder ==
    <<"\t", "\n", "\r">> \o <<" ", "$", "(", ")", ",", "-", ".", "/", "0", "1", "2", "3", "4", "5", "6", "7", "8", "9", ":">> \o UpperCase \o <<"_">> \o LowerCase
        \o <<"|", "₦">>

CodePoint(c) == CHOOSE i \in 1..Len(CodePointOrder) : CodePointOrder[i] = c

\* a < b for two strings.
RECURSIVE TextLess(_, _)
TextLess(a, b) ==
    IF b = <<>> THEN FALSE
    ELSE IF a = <<>> THEN TRUE
    ELSE IF Head(a) = Head(b) THEN TextLess(Tail(a), Tail(b))
    ELSE CodePoint(Head(a)) < CodePoint(Head(b))

RECURSIVE Ascending(_)
Ascending(S) ==
    IF S = {} THEN <<>>
    ELSE LET least == CHOOSE x \in S : \A y \in S : ~TextLess(y, x)
         IN  <<least>> \o Ascending(S \ {least})

Reverse(q) == [k \in 1..Len(q) |-> q[Len(q) + 1 - k]]

\* The values PYTHONHASHSEED takes in the model.
HashSeeds == {"seed1", "seed2"}

\* list(set(items)): the distinct items in the iteration order of a set of
\* strings.  The order follows from the string hashes, which the interpreter
\* salts with a seed it draws when the process starts; the language fixes no
\* order.  Under the two seeds of the model a set iterates in opposite
\* orders; within one process the order of a given set is always the same.
ListOfSet(items, seed) ==
    IF seed = "seed1" THEN Ascending(Range(items)) ELSE Reverse(Ascending(Range(items)))

\* re.split(r'[,;]\s*', s) and re.split(r'[,;-]\s*', s): s cut at every
\* separator character together with the whitespace that follows it.
RECURSIVE Split(_, _)
Split(s, Separators) ==
    LET hits == {k \in 1..Len(s) : s[k] \in Separators}
    IN  IF hits = {} THEN <<s>>
        ELSE <<SubSeq(s, 1, Min(hits) - 1)>>
                 \o Split(SubSeq(s, RunEnd(s, Min(hits) + 1, SpaceChars), Len(s)), Separators)

\* [x.strip().title() for x in re.split(...) if x.strip()] for the group of a match.
TitledItems(m, Separators) ==
    IF ~m.ok THEN <<>>
    ELSE LET pieces == Split(strip(m.group), Separators)
         IN  SelectSeq([k \in 1..Len(pieces) |-> title(strip(pieces[k]))], LAMBDA d : d # <<>>)

\* [w.title() for w in words if re.search(rf'\b{w}\b', text, re.IGNORECASE)]
TitledWords(text, words) ==
    LET found == SelectSeq(words, LAMBDA w : HasWord(text, w))
    IN  [k \in 1..Len(found) |-> title(found[k])]

\* ------------------------------------------------------------------ _extract_diagnoses

\* diagnosis[:]\s*([A-Za-z\s,]+)
DiagnosisPattern1(text, i) == LabelledRun(text, i, {<<"d", "i", "a", "g", "n", "o", "s", "i", "s", ":">>}, Alpha \cup SpaceChars \cup {","})

\* condition[:]\s*([A-Za-z\s,]+)
DiagnosisPattern2(text, i) == LabelledRun(text, i, {<<"c", "o", "n", "d", "i", "t", "i", "o", "n", ":">>}, Alpha \cup SpaceChars \cup {","})

\* diagnosed with[:]\s*([A-Za-z\s,]+)
DiagnosisPattern3(text, i) == LabelledRun(text, i, {<<"d", "i", "a", "g", "n", "o", "s", "e", "d", " ", "w", "i", "t", "h", ":">>}, Alpha \cup SpaceChars \cup {","})

common_conditions ==
    <<<<"m", "a", "l", "a", "r", "i", "a">>, <<"f", "e", "v", "e", "r">>, <<"h", "e", "a", "d", "a", "c", "h", "e">>, <<"t", "y", "p", "h", "o", "i", "d">>, <<"f", "l", "u">>, <<"c", "o", "l", "d">>, <<"i", "n", "f", "e", "c", "t", "i", "o", "n">>>>

\* The default of a list-valued field: `items if items else default`.
ListOrDefault_None(items, default) == items

ListOrDefault(items, default) == IF items # <<>> THEN items ELSE default

\* _extract_diagnoses
extract_diagnoses(text) ==
    LET diagnoses == TitledItems(Search(text, DiagnosisPattern1), {",", ";"})
                         \o TitledItems(Search(text, DiagnosisPattern2), {",", ";"})
                         \o TitledItems(Search(text, DiagnosisPattern3), {",", ";"})
                         \o TitledWords(text, common_conditions)
    IN  ListOrDefault(ListOfSet(diagnoses, hashseed), <<<<"M", "a", "l", "a", "r", "i", "a">>>>)

\* ------------------------------------------------------------------ _extract_medications

\* ([A-Za-z]+(?:/[A-Za-z]+)?) at position i: the position after it, i when it
\* does not match.
MedicationNameEnd(text, i) ==
    LET a == RunEnd(text, i, Alpha)
        b == RunEnd(text, a + 1, Alpha)
    IN  IF a > i /\ a <= Len(text) /\ text[a] = "/" /\ b > a + 1 THEN b ELSE a

\* (\d+\s*mg) at position i: the position after it, i when it does not match.
DosageEnd(text, i) ==
    LET d == RunEnd(text, i, DigitChars)
        s == RunEnd(text, d, SpaceChars)
    IN  IF d > i /\ LitAt(text, s, <<"m", "g">>) THEN s + 2 ELSE i

\* (\d+\s*tablets?) at position i: the position after it, i when it does not match.
TabletsEnd(text, i) ==
    LET d == RunEnd(text, i, DigitChars)
        s == RunEnd(text, d, SpaceChars)
    IN  IF d > i /\ LitAt(text, s, <<"t", "a", "b", "l", "e", "t">>)
        THEN (IF LitAt(text, s + 6, <<"s">>) THEN s + 7 ELSE s + 6)
        ELSE i

\* \s*.*? can span text[q..p-1]: whitespace, then characters other than newline.
LazySpan(text, q, p) ==
    \E r \in q..p :
        /\ \A k \in q..(r - 1) : text[k] \in SpaceChars
        /\ \A k \in r..(p - 1) : text[k] # "\n"

\* medication_patterns[0]: ([A-Za-z]+(?:/[A-Za-z]+)?)\s*(\d+\s*mg)\s*.*?(\d+\s*tablets?)
MedicationPattern1(text, i) ==
    LET a == MedicationNameEnd(text, i)
        d == RunEnd(text, a, SpaceChars)
        q == DosageEnd(text, d)
        hits == {p \in q..Len(text) : LazySpan(text, q, p) /\ TabletsEnd(text, p) > p}
    IN  IF a > i /\ q > d /\ hits # {}
        THEN [ok |-> TRUE, end |-> TabletsEnd(text, Min(hits)),
              name |-> SubSeq(text, i, a - 1), dosage |-> SubSeq(text, d, q - 1),
              quantity |-> SubSeq(text, Min(hits), TabletsEnd(text, Min(hits)) - 1)]
        ELSE NoMatch

\* \s*[-:]\s* at position i: the position after it, i when it does not match.
DashEnd(text, i) ==
    LET s == RunEnd(text, i, SpaceChars)
    IN  IF s <= Len(text) /\ text[s] \in {"-", ":"} THEN RunEnd(text, s + 1, SpaceChars) ELSE i

\* medication_patterns[1]: ([A-Za-z]+)\s*[-:]\s*(\d+\s*mg)\s*[-:]\s*(\d+\s*tablets?)
MedicationPattern2(text, i) ==
    LET a == RunEnd(text, i, Alpha)
        d == DashEnd(text, a)
        q == DosageEnd(text, d)
        p == DashEnd(text, q)
        e == TabletsEnd(text, p)
    IN  IF a > i /\ d > a /\ q > d /\ p > q /\ e > p
        THEN [ok |-> TRUE, end |-> e,
              name |-> SubSeq(text, i, a - 1), dosage |-> SubSeq(text, d, q - 1),
              quantity |-> SubSeq(text, p, e - 1)]
        ELSE NoMatch

\* quantity[:]\s*(\d+) at position i: where the digits start and end, <<i, i>>
\* when it does not match.
QuantityDigits(text, i) ==
    LET d == RunEnd(text, i + 9, SpaceChars)
        e == RunEnd(text, d, DigitChars)
    IN  IF LitAt(text, i, <<"q", "u", "a", "n", "t", "i", "t", "y", ":">>) /\ e > d THEN <<d, e>> ELSE <<i, i>>

\* medication_patterns[2]: ([A-Za-z]+(?:/[A-Za-z]+)?)\s*(\d+mg)\s*.*?quantity[:]\s*(\d+)
MedicationPattern3(text, i) ==
    LET a == MedicationNameEnd(text, i)
        d == RunEnd(text, a, SpaceChars)
        g == RunEnd(text, d, DigitChars)
        q == g + 2
        hits == {p \in q..Len(text) : LazySpan(text, q, p) /\ QuantityDigits(text, p)[2] > p}
    IN  IF a > i /\ g > d /\ LitAt(text, g, <<"m", "g">>) /\ hits # {}
        THEN [ok |-> TRUE, end |-> QuantityDigits(text, Min(hits))[2],
              name |-> SubSeq(text, i, a - 1), dosage |-> SubSeq(text, d, q - 1),
              quantity |-> SubSeq(text, QuantityDigits(text, Min(hits))[1],
                                  QuantityDigits(text, Min(hits))[2] - 1)]
        ELSE NoMatch

\* The matches re.finditer yields, given the match at every position: the
\* leftmost one, then the leftmost one that starts where it ended or later,
\* and so on.
RECURSIVE Scan(_, _)
Scan(matches, from) ==
    LET hits == {i \in DOMAIN matches : i >= from /\ matches[i].ok}
    IN  IF hits = {} THEN <<>>
        ELSE <<matches[Min(hits)]>> \o Scan(matches, matches[Min(hits)].end)

\* re.finditer(pattern, text, re.IGNORECASE)
FindIter(text, Pattern(_, _)) == Scan([i \in 1..Len(text) |-> Pattern(text, i)], 1)

\* The dict built from one match (lines 175-183).
MedicationOf(m) ==
    [name |-> title(strip(m.name)), dosage |-> lower(strip(m.dosage)),
     quantity |-> lower(strip(m.quantity))]

common_meds ==
    <<<<"p", "a", "r", "a", "c", "e", "t", "a", "m", "o", "l">>, <<"i", "b", "u", "p", "r", "o", "f", "e", "n">>, <<"a", "r", "t", "e", "m", "e", "t", "h", "e", "r">>, <<"l", "u", "m", "e", "f", "a", "n", "t", "r", "i", "n", "e">>, <<"a", "s", "p", "i", "r", "i", "n">>>>

\* The entry added for a medication that is only mentioned, and the default.
SampleMedication(name) == [name |-> name, dosage |-> <<"5", "0", "0", "m", "g">>, quantity |-> <<"1", "0", " ", "t", "a", "b", "l", "e", "t", "s">>]

\* _extract_medications
extract_medications(text) ==
    LET matches == FindIter(text, MedicationPattern1) \o FindIter(text, MedicationPattern2)
                       \o FindIter(text, MedicationPattern3)
        found == [k \in 1..Len(matches) |-> MedicationOf(matches[k])]
        mentioned == SelectSeq(common_meds,
                               LAMBDA med : /\ HasWord(text, med)
                                            /\ \A k \in 1..Len(found) : lower(found[k].name) # med)
        medications == found \o [k \in 1..Len(mentioned) |-> SampleMedication(title(mentioned[k]))]
    IN  ListOrDefault(medications, <<SampleMedication(<<"P", "a", "r", "a", "c", "e", "t", "a", "m", "o", "l">>)>>)

\* ------------------------------------------------------------------ _extract_procedures

\* procedures?[:]\s*([A-Za-z\s,]+)
ProcedurePattern1(text, i) ==
    LabelledRun(text, i, {<<"p", "r", "o", "c", "e", "d", "u", "r", "e", ":">>, <<"p", "r", "o", "c", "e", "d", "u", "r", "e", "s", ":">>}, Alpha \cup SpaceChars \cup {","})

\* tests?[:]\s*([A-Za-z\s,]+)
ProcedurePattern2(text, i) ==
    LabelledRun(text, i, {<<"t", "e", "s", "t", ":">>, <<"t", "e", "s", "t", "s", ":">>}, Alpha \cup SpaceChars \cup {","})

\* treatment[:]\s*([A-Za-z\s,]+)
ProcedurePattern3(text, i) == LabelledRun(text, i, {<<"t", "r", "e", "a", "t", "m", "e", "n", "t", ":">>}, Alpha \cup SpaceChars \cup {","})

common_procedures ==
    <<<<"m", "a", "l", "a", "r", "i", "a", " ", "t", "e", "s", "t">>, <<"b", "l", "o", "o", "d", " ", "t", "e", "s", "t">>, <<"r", "a", "p", "i", "d", " ", "t", "e", "s", "t">>, <<"x", "-", "r", "a", "y">>, <<"c", "o", "n", "s", "u", "l", "t", "a", "t", "i", "o", "n">>>>

\* _extract_procedures
extract_procedures(text) ==
    LET procedures == TitledItems(Search(text, ProcedurePattern1), {",", ";", "-"})
                          \o TitledItems(Search(text, ProcedurePattern2), {",", ";", "-"})
                          \o TitledItems(Search(text, ProcedurePattern3), {",", ";", "-"})
                          \o TitledWords(text, common_procedures)
    IN  ListOrDefault(ListOfSet(procedures, hashseed), <<<<"M", "a", "l", "a", "r", "i", "a", " ", "T", "e", "s", "t">>>>)

\* ------------------------------------------------------------------ _normalize_date

\* str(n) for n >= 0.
RECURSIVE str_int(_)
str_int(n) == IF n < 10 THEN <<Digit(n)>> ELSE str_int(n \div 10) \o <<Digit(n % 10)>>

\* What strptime's %d and %m accept: one or two digits naming 1..31 and 1..12;
\* %d also a space and one digit.
DayField(s) ==
    \/ Len(s) \in {1, 2} /\ isdigit(s) /\ int(s) \in 1..31
    \/ Len(s) = 2 /\ s[1] = " " /\ s[2] \in DigitChars \ {"0"}

MonthField(s) == Len(s) \in {1, 2} /\ isdigit(s) /\ int(s) \in 1..12

\* %Y: four digits.  %y: two digits, 00-68 in 2000-2068 and 69-99 in 1969-1999.
YearOf(s, four_digits) ==
    IF four_digits THEN int(s)
    ELSE IF int(s) < 69 THEN 2000 + int(s) ELSE 1900 + int(s)

IsLeap(y) == y % 4 = 0 /\ (y % 100 # 0 \/ y % 400 = 0)

DaysIn(y, m) ==
    IF m = 2 THEN (IF IsLeap(y) THEN 29 ELSE 28)
    ELSE IF m \in {4, 6, 9, 11} THEN 30 ELSE 31

NoDate == [ok |-> FALSE]

\* datetime.strptime(date_str, fmt) for a format of day, month and year
\* fields divided by sep: the date, or NoDate where strptime raises ValueError.
strptime(date_str, sep, day_first, four_digits) ==
    LET cuts == {k \in 1..Len(date_str) : date_str[k] = sep}
        c1 == Min(cuts)
        c2 == Min(cuts \ {c1})
        f1 == SubSeq(date_str, 1, c1 - 1)
        f2 == SubSeq(date_str, c1 + 1, c2 - 1)
        f3 == SubSeq(date_str, c2 + 1, Len(date_str))
        day == IF day_first THEN f1 ELSE f2
        month == IF day_first THEN f2 ELSE f1
    IN  IF /\ Cardinality(cuts) = 2
           /\ DayField(day) /\ MonthField(month)
           /\ isdigit(f3) /\ Len(f3) = (IF four_digits THEN 4 ELSE 2)
           /\ YearOf(f3, four_digits) >= 1
           /\ int(lstrip(day)) <= DaysIn(YearOf(f3, four_digits), int(month))
        THEN [ok |-> TRUE, year |-> YearOf(f3, four_digits), month |-> int(month),
              day |-> int(lstrip(day))]
        ELSE NoDate

\* parsed_date.strftime('%Y-%m-%d')
strftime(date) == str_int(date.year) \o <<"-">> \o Pad2(date.month) \o <<"-">> \o Pad2(date.day)

\* _normalize_date: the formats are tried in the order of the list.
normalize_date(date_str) ==
    LET formats == <<strptime(date_str, "/", TRUE, TRUE), strptime(date_str, "/", FALSE, TRUE),
                     strptime(date_str, "-", TRUE, TRUE), strptime(date_str, "-", FALSE, TRUE),
                     strptime(date_str, "/", TRUE, FALSE), strptime(date_str, "/", FALSE, FALSE)>>
        parsed == {k \in 1..Len(formats) : formats[k].ok}
    IN  IF parsed = {} THEN date_str ELSE strftime(formats[Min(parsed)])

\* ------------------------------------------------------------------ _extract_admission_info

admission_indicators == <<<<"a", "d", "m", "i", "t", "t", "e", "d">>, <<"a", "d", "m", "i", "s", "s", "i", "o", "n">>, <<"i", "n", "p", "a", "t", "i", "e", "n", "t">>, <<"w", "a", "r", "d">>>>

\* (\d{1,2}[\/\-]\d{1,2}[\/\-]\d{2,4}) at position i: the position after it,
\* i when it does not match.
DateEnd(text, i) ==
    LET a == RunEnd(text, i, DigitChars)
        b == RunEnd(text, a + 1, DigitChars)
        c == RunEnd(text, b + 1, DigitChars)
    IN  IF /\ a - i \in {1, 2} /\ a <= Len(text) /\ text[a] \in {"/", "-"}
           /\ b - (a + 1) \in {1, 2} /\ b <= Len(text) /\ text[b] \in {"/", "-"}
           /\ c - (b + 1) >= 2
        THEN (IF c - (b + 1) > 4 THEN b + 5 ELSE c)
        ELSE i

\* A pattern of the shape  label\s*(date)
LabelledDate(text, i, label) ==
    LET d == RunEnd(text, i + Len(label), SpaceChars)
    IN  IF LitAt(text, i, label) /\ DateEnd(text, d) > d
        THEN [ok |-> TRUE, end |-> DateEnd(text, d), group |-> SubSeq(text, d, DateEnd(text, d) - 1)]
        ELSE NoMatch

\* date_patterns
DatePattern1(text, i) == LabelledDate(text, i, <<"a", "d", "m", "i", "s", "s", "i", "o", "n", " ", "d", "a", "t", "e", ":">>)

DatePattern2(text, i) == LabelledDate(text, i, <<"a", "d", "m", "i", "t", "t", "e", "d", ":">>)

DatePattern3(text, i) == LabelledDate(text, i, <<"d", "i", "s", "c", "h", "a", "r", "g", "e", " ", "d", "a", "t", "e", ":">>)

DatePattern4(text, i) == LabelledDate(text, i, <<"d", "i", "s", "c", "h", "a", "r", "g", "e", "d", ":">>)

\* The value the loop over date_patterns leaves in a date key that the two
\* patterns `first`, `second` of the list assign: the later match wins.
DateFound(first, second) ==
    IF second.ok THEN normalize_date(second.group)
    ELSE IF first.ok THEN normalize_date(first.group)
    ELSE None

\* _extract_admission_info
extract_admission_info_KeepDischarge(text) ==
    LET was_admitted == \E k \in 1..Len(admission_indicators) : HasWord(text, admission_indicators[k])
        admission_date == DateFound(Search(text, DatePattern1), Search(text, DatePattern2))
        discharge_date == DateFound(Search(text, DatePattern3), Search(text, DatePattern4))
    IN  [was_admitted |-> was_admitted,
         admission_date |-> IF was_admitted /\ admission_date = None
                            THEN <<"2", "0", "2", "3", "-", "0", "6", "-", "1", "0">> ELSE admission_date,
         discharge_date |-> IF was_admitted /\ admission_date = None /\ discharge_date = None
                            THEN <<"2", "0", "2", "3", "-", "0", "6", "-", "1", "2">> ELSE discharge_date]

extract_admission_info(text) ==
    LET was_admitted == \E k \in 1..Len(admission_indicators) : HasWord(text, admission_indicators[k])
        admission_date == DateFound(Search(text, DatePattern1), Search(text, DatePattern2))
        discharge_date == DateFound(Search(text, DatePattern3), Search(text, DatePattern4))
    IN  IF was_admitted /\ admission_date = None
        THEN [was_admitted |-> was_admitted, admission_date |-> <<"2", "0", "2", "3", "-", "0", "6", "-", "1", "0">>,
              discharge_date |-> <<"2", "0", "2", "3", "-", "0", "6", "-", "1", "2">>]
        ELSE [was_admitted |-> was_admitted, admission_date |-> admission_date,
              discharge_date |-> discharge_date]

\* ------------------------------------------------------------------ format_currency

\* s with every character of chars removed.
Without(s, chars) == SelectSeq(s, LAMBDA c : c \notin chars)

Zeros(n) == [k \in 1..n |-> "0"]

\* A string of digits without its leading zeros.
RECURSIVE StripZeros(_)
StripZeros(d) == IF d # <<>> /\ Head(d) = "0" THEN StripZeros(Tail(d)) ELSE d

\* The digits of n + 1, for the digits of n.
RECURSIVE Successor(_)
Successor(d) ==
    IF d = <<>> THEN <<"1">>
    ELSE IF d[Len(d)] = "9" THEN Successor(SubSeq(d, 1, Len(d) - 1)) \o <<"0">>
    ELSE SubSeq(d, 1, Len(d) - 1) \o <<Digit(DigitValue(d[Len(d)]) + 1)>>

\* The ',' of a format specification: a comma before every group of three digits.
RECURSIVE Grouped(_)
Grouped(d) ==
    IF Len(d) <= 3 THEN d
    ELSE Grouped(SubSeq(d, 1, Len(d) - 3)) \o <<",">> \o SubSeq(d, Len(d) - 2, Len(d))

InvalidOperation == [kind |-> "InvalidOperation"]

\* decimal.Decimal(s) with s in lower case, without underscores and sign: a
\* number  digits [. digits] [e [sign] digits], an infinity or a NaN.
DecimalOf(r, sign) ==
    LET i1 == RunEnd(r, 1, DigitChars)
        has_point == i1 <= Len(r) /\ r[i1] = "."
        f0 == IF has_point THEN i1 + 1 ELSE i1
        f1 == RunEnd(r, f0, DigitChars)
        has_exp == f1 <= Len(r) /\ r[f1] = "e"
        has_exp_sign == has_exp /\ f1 + 1 <= Len(r) /\ r[f1 + 1] \in {"+", "-"}
        exp_digits == SubSeq(r, IF has_exp_sign THEN f1 + 2 ELSE f1 + 1, Len(r))
        nan == IF LitAt(r, 1, <<"s", "n", "a", "n">>) THEN 4 ELSE IF LitAt(r, 1, <<"n", "a", "n">>) THEN 3 ELSE 0
    IN  IF r \in {<<"i", "n", "f">>, <<"i", "n", "f", "i", "n", "i", "t", "y">>}
        THEN [kind |-> "Infinity", sign |-> sign]
        ELSE IF nan > 0 /\ \A k \in (nan + 1)..Len(r) : r[k] \in DigitChars
        THEN [kind |-> IF nan = 4 THEN "sNaN" ELSE "NaN", sign |-> sign,
              payload |-> StripZeros(SubSeq(r, nan + 1, Len(r)))]
        ELSE IF /\ i1 > 1 \/ f1 > f0
                /\ IF has_exp THEN isdigit(exp_digits) ELSE f1 = Len(r) + 1
        THEN [kind |-> "number", sign |-> sign,
              digits |-> SubSeq(r, 1, i1 - 1) \o SubSeq(r, f0, f1 - 1),
              exponent |-> (IF ~has_exp THEN 0
                            ELSE IF has_exp_sign /\ r[f1 + 1] = "-" THEN 0 - int(exp_digits)
                            ELSE int(exp_digits)) - (f1 - f0)]
        ELSE InvalidOperation

\* decimal.Decimal(s) for a string s
Decimal(s) ==
    LET t == lower(Without(strip(s), {"_"}))
    IN  IF t # <<>> /\ Head(t) = "-" THEN DecimalOf(Tail(t), <<"-">>)
        ELSE IF t # <<>> /\ Head(t) = "+" THEN DecimalOf(Tail(t), <<>>)
        ELSE DecimalOf(t, <<>>)

\* f"{value:,.2f}" for a Decimal: two places after the point, rounded half to
\* even, the digits before the point in groups of three.
FixedPoint(value) ==
    LET shift == 0 - value.exponent
        padded == IF shift >= Len(value.digits)
                  THEN Zeros(shift - Len(value.digits) + 1) \o value.digits
                  ELSE value.digits
        whole == IF shift <= 0 THEN value.digits \o Zeros(0 - shift)
                 ELSE SubSeq(padded, 1, Len(padded) - shift)
        rest == IF shift <= 0 THEN <<>> ELSE SubSeq(padded, Len(padded) - shift + 1, Len(padded))
        kept == SubSeq(rest \o <<"0", "0">>, 1, 2)
        tail == SubSeq(rest, 3, Len(rest))
        half == tail # <<>> /\ tail[1] = "5" /\ \A k \in 2..Len(tail) : tail[k] = "0"
        above == tail # <<>> /\ DigitValue(tail[1]) >= 5 /\ ~half
        up == above \/ (half /\ DigitValue(kept[2]) % 2 = 1)
        cents == IF up THEN Successor(whole \o kept) ELSE whole \o kept
        units == StripZeros(SubSeq(cents, 1, Len(cents) - 2))
    IN  value.sign \o Grouped(IF units = <<>> THEN <<"0">> ELSE units) \o <<".">>
            \o SubSeq(cents, Len(cents) - 1, Len(cents))

\* f"{value:,.2f}" for any Decimal.
FormatDecimal(value) ==
    CASE value.kind = "number" -> FixedPoint(value)
      [] value.kind = "Infinity" -> value.sign \o <<"I", "n", "f", "i", "n", "i", "t", "y">>
      [] value.kind = "NaN" -> value.sign \o <<"N", "a", "N">> \o value.payload
      [] value.kind = "sNaN" -> value.sign \o <<"s", "N", "a", "N">> \o value.payload

\* format_currency
format_currency(amount) ==
    IF amount = <<>> THEN <<"₦", "0", ".", "0", "0">>
    ELSE LET value == Decimal(strip(Without(amount, {",", "₦", "$"})))
         IN  IF value = InvalidOperation THEN <<"₦", "0", ".", "0", "0">> ELSE <<"₦">> \o FormatDecimal(value)

\* ------------------------------------------------------------------ _extract_total_amount

\* (?:,\d{3})* at position i: the position after it.
RECURSIVE CommaGroupsEnd(_, _)
CommaGroupsEnd(text, i) ==
    IF /\ i + 3 <= Len(text) /\ text[i] = ","
       /\ \A k \in 1..3 : text[i + k] \in DigitChars
    THEN CommaGroupsEnd(text, i + 4)
    ELSE i

\* (\d+(?:,\d{3})*(?:\.\d{2})?) at position i: the position after it, i when
\* it does not match.
NumberEnd(text, i) ==
    LET g == CommaGroupsEnd(text, RunEnd(text, i, DigitChars))
    IN  IF RunEnd(text, i, DigitChars) = i THEN i
        ELSE IF /\ g + 2 <= Len(text) /\ text[g] = "."
                /\ text[g + 1] \in DigitChars /\ text[g + 2] \in DigitChars
        THEN g + 3
        ELSE g

\* A pattern of the shape  label\s*[₦\$]?(number)  for a label that is one of Labels.
LabelledAmount(text, i, Labels) ==
    LET heads == {h \in Labels : LitAt(text, i, h)}
    IN  IF heads = {} THEN NoMatch
        ELSE LET s == RunEnd(text, i + Len(CHOOSE h \in heads : TRUE), SpaceChars)
                 n == IF s <= Len(text) /\ text[s] \in {"₦", "$"} /\ NumberEnd(text, s + 1) > s + 1
                      THEN s + 1 ELSE s
             IN  IF NumberEnd(text, n) > n
                 THEN [ok |-> TRUE, end |-> NumberEnd(text, n), group |-> SubSeq(text, n, NumberEnd(text, n) - 1)]
                 ELSE NoMatch

\* amount_patterns
AmountPattern1(text, i) == LabelledAmount(text, i, {<<"t", "o", "t", "a", "l", " ", "a", "m", "o", "u", "n", "t", ":">>, <<"t", "o", "t", "a", "l", " ", "a", "m", "o", "u", "n", ":">>})

AmountPattern2(text, i) == LabelledAmount(text, i, {<<"t", "o", "t", "a", "l", ":">>})

AmountPattern3(text, i) == LabelledAmount(text, i, {<<"a", "m", "o", "u", "n", "t", ":">>})

AmountPattern4(text, i) == LabelledAmount(text, i, {<<"b", "i", "l", "l", ":">>})

\* [₦\$]\s*(number)
AmountPattern5(text, i) ==
    LET n == RunEnd(text, i + 1, SpaceChars)
    IN  IF text[i] \in {"₦", "$"} /\ NumberEnd(text, n) > n
        THEN [ok |-> TRUE, end |-> NumberEnd(text, n), group |-> SubSeq(text, n, NumberEnd(text, n) - 1)]
        ELSE NoMatch

\* The fallback of _extract_total_amount (line 308).
DefaultAmount == <<"₦", "1", "5", ",", "0", "0", "0">>

\* _extract_total_amount
extract_total_amount(text) ==
    LET found == <<Search(text, AmountPattern1), Search(text, AmountPattern2),
                   Search(text, AmountPattern3), Search(text, AmountPattern4),
                   Search(text, AmountPattern5)>>
        matched == {k \in 1..Len(found) : found[k].ok}
    IN  IF matched = {} THEN DefaultAmount
        ELSE format_currency(Without(found[Min(matched)].group, {","}))

\* ------------------------------------------------------------------ claim documents

\* The lines a claim document is made of in the model.
Lines ==
    <<<<"D", "i", "a", "g", "n", "o", "s", "i", "s", ":", " ", "M", "a", "l", "a", "r", "i", "a">>,
      <<"P", "a", "r", "a", "c", "e", "t", "a", "m", "o", "l", " ", "5", "0", "0", "m", "g", " ", ".", ".", ".", " ", "1", "0", " ", "t", "a", "b", "l", "e", "t", "s">>,
      <<"T", "o", "t", "a", "l", ":", " ", "1", "5", "0", "0", "0">>,
      <<"N", "a", "m", "e", ":", " ", "A", "n", "n">>,
      <<"A", "g", "e", ":", " ", "3", "4">>,
      <<"A", "d", "m", "i", "s", "s", "i", "o", "n", " ", "d", "a", "t", "e", ":", " ", "1", "/", "2", "/", "2", "3">>,
      <<"D", "i", "s", "c", "h", "a", "r", "g", "e", " ", "d", "a", "t", "e", ":", " ", "3", "/", "2", "/", "2", "3">>,
      <<"B", "i", "l", "l", ":", " ", "$", "1", ",", "2", "3", "4", ".", "5", "6">>,
      <<"I", "b", "u", "p", "r", "o", "f", "e", "n", " ", "2", "5", "m", "g", " ", "6", " ", "t", "a", "b", "l", "e", "t", "s">>,
      <<"I", "n", "p", "a", "t", "i", "e", "n", "t", " ", "w", "a", "r", "d">>,
      <<"T", "e", "s", "t", "s", ":", " ", "B", "l", "o", "o", "d", " ", "T", "e", "s", "t", ",", " ", "X", "-", "R", "a", "y">>,
      <<"C", "o", "n", "d", "i", "t", "i", "o", "n", ":", " ", "F", "l", "u", ",", " ", "C", "o", "l", "d">>>>

\* The documents of k lines, each line ended by a newline.
RECURSIVE DocumentsOf(_)
DocumentsOf(k) ==
    IF k = 0 THEN {<<>>}
    ELSE {d \o Lines[n] \o <<"\n">> : d \in DocumentsOf(k - 1), n \in 1..Len(Lines)}

Documents == UNION {DocumentsOf(k) : k \in 1..MaxLines}

\* The sample document: a diagnosis, a prescription and a total.
ScenarioText == Lines[1] \o <<"\n">> \o Lines[2] \o <<"\n">> \o Lines[3] \o <<"\n">>

\* A text as OCR yields it: whitespace at both ends, a run of whitespace
\* inside, a '0' and a '|'.
NoisyText == <<" ", "a", " ", "\n", "0", "|", " ">>

\* No call of extract_claim_data is made.  (Nothing but the order of the two
\* de-duplicated lists depends on the hash seed.)
ExtractIdle ==
    /\ ocr_text = <<>>
    /\ xpc = "off"
    /\ cleaned_text = None
    /\ ran = <<>>
    /\ outcome = NoRet
    /\ claim_data = EmptyDict
    /\ hashseed = "seed1"
    /\ raised = NoRet
    /\ previous = NoRet

\* extract_claim_data is called on a text, in a process with some hash seed.
ExtractInit ==
    /\ ocr_text \in Texts \cup Documents \cup {ScenarioText, NoisyText}
    /\ xpc = "check"
    /\ cleaned_text = None
    /\ ran = <<>>
    /\ outcome = NoRet
    /\ claim_data = EmptyDict
    /\ hashseed \in HashSeeds
    /\ raised = NoRet
    /\ previous = NoRet

\* No call of format_currency is made.
CurrencyIdle ==
    /\ fc_amount = <<>>
    /\ fc_result = NoRet

\* The characters an amount string is drawn from: digits, the separators and
\* the symbol that format_currency removes, a sign, a space, and letters that
\* spell an exponent and the special values of Decimal.
AmountChars == {"0", "1", "5", ",", ".", "₦", "-", " ", "e", "n", "a"}

RECURSIVE AmountsUpTo(_)
AmountsUpTo(n) ==
    IF n = 0 THEN {<<>>}
    ELSE LET shorter == AmountsUpTo(n - 1)
         IN  shorter \cup {Append(q, c) : q \in {x \in shorter : Len(x) = n - 1}, c \in AmountChars}

AmountExamples ==
    { <<"1", "5", "0", "0", "0">>,
      <<"n", "o", "t", "-", "a", "-", "n", "u", "m", "b", "e", "r">>,
      <<"₦", "1", ",", "2", "3", "4", ".", "5">>,
      <<"$", "1", "5", ",", "0", "0", "0", ".", "0", "0", "5">>,
      <<"I", "n", "f", "i", "n", "i", "t", "y">>,
      <<"1", "_", "0", "0", "0">> }

Amounts == AmountsUpTo(MaxAmountLen) \cup AmountExamples

\* The day and month fields, the separators and the year fields of the date
\* strings tried.
DayMonthFields == {<<"1">>, <<"0", "1">>, <<"2">>, <<" ", "2">>, <<"1", "3">>, <<"3", "1">>, <<"0">>}

DateSeparators == {"/", "-"}

YearFields ==
    {<<"2", "3">>, <<"6", "8">>, <<"6", "9">>, <<"9", "9", "9">>, <<"2", "0", "2", "3">>,
     <<"2", "0", "2", "4">>, <<"0", "9", "9", "9">>}

DateExamples ==
    {<<"1", "0", "/", "0", "6", "/", "2", "0", "2", "3">>, <<>>, <<"n", "/", "a">>,
     <<"2", "9", "/", "0", "2", "/", "2", "0", "2", "3">>, <<"2", "9", "/", "0", "2", "/", "2", "0", "2", "4">>,
     <<"1", "/", "2", "/", "2", "3", " ">>}

DateStrings ==
    {d \o <<s1>> \o m \o <<s2>> \o y :
        d \in DayMonthFields, m \in DayMonthFields, s1 \in DateSeparators, s2 \in DateSeparators,
        y \in YearFields} \cup DateExamples

\* No call of _normalize_date is made.
DateIdle ==
    /\ nd_date_str = <<>>
    /\ nd_result = NoRet

\* A call _normalize_date(nd_date_str) is about to be made.
DateInit ==
    /\ nd_date_str \in DateStrings
    /\ nd_result = NoRet

\* _normalize_date(nd_date_str) runs and returns.
NormalizeDate ==
    /\ nd_result = NoRet
    /\ nd_result' = [kind |-> "str", val |-> normalize_date(nd_date_str)]
    /\ UNCHANGED nd_date_str
    /\ UNCHANGED <<storeVars, extractVars, currencyVars, askVars, postVars>>

\* A call format_currency(amount) is about to be made.
CurrencyInit ==
    /\ fc_amount \in Amounts
    /\ fc_result = NoRet

\* format_currency(fc_amount) runs and returns.
FormatCurrency ==
    /\ fc_result = NoRet
    /\ fc_result' = [kind |-> "str", val |-> format_currency(fc_amount)]
    /\ UNCHANGED fc_amount
    /\ UNCHANGED <<storeVars, extractVars, dateVars, askVars, postVars>>

\* Exceptions that the interpreter can raise in any helper called inside the
\* try block, whatever the text: each is a subclass of Exception, and str(e)
\* is its message.
Faults ==
    { [kind |-> "MemoryError", val |-> ""],
      [kind |-> "RecursionError", val |-> "maximum recursion depth exceeded"],
      [kind |-> "RuntimeError", val |-> "internal extractor failure"] }

ExceptClause_Reraise(e) == [kind |-> e.kind, val |-> <<e.val>>]

\* Lines 63-68: what the except clause raises for the exception e it caught.
ExceptClause(e) == [kind |-> "ExtractionError", val |-> Rewrapped(e.val)]

\* Lines 38-39, and the except clause they end in for blank input.
ExtractCheck ==
    /\ xpc = "check"
    /\ IF IsBlank(ocr_text)
       THEN /\ raised' = [kind |-> "ExtractionError", val |-> "Empty OCR text provided"]
            /\ outcome' = ExceptClause(raised')
            /\ xpc' = "done"
       ELSE /\ xpc' = "clean"
            /\ UNCHANGED <<outcome, raised>>
    /\ UNCHANGED <<ocr_text, cleaned_text, ran, claim_data, hashseed, previous>>
    /\ UNCHANGED <<storeVars, currencyVars, dateVars, askVars, postVars>>

\* Line 42.
ExtractClean ==
    /\ xpc = "clean"
    /\ cleaned_text' = clean_ocr_text(ocr_text)
    /\ ran' = Append(ran, "_clean_ocr_text")
    /\ xpc' = "fields"
    /\ UNCHANGED <<ocr_text, outcome, claim_data, hashseed, raised, previous>>
    /\ UNCHANGED <<storeVars, currencyVars, dateVars, askVars, postVars>>

\* What the k-th field extractor returns for text.
FieldValue(k, text) ==
    CASE k = 1 -> extract_patient_info(text)
      [] k = 2 -> extract_diagnoses(text)
      [] k = 3 -> extract_medications(text)
      [] k = 4 -> extract_procedures(text)
      [] k = 5 -> extract_admission_info(text)
      [] k = 6 -> extract_total_amount(text)

\* Lines 45-52: the next field extractor is called on cleaned_text and its
\* result becomes the next entry of claim_data.
ExtractField ==
    /\ xpc = "fields"
    /\ Len(ran) < 1 + Len(Extractors)
    /\ ran' = Append(ran, Extractors[Len(ran)])
    /\ claim_data' = claim_data @@ (ClaimKeys[Len(ran)] :> FieldValue(Len(ran), cleaned_text))
    /\ UNCHANGED <<ocr_text, xpc, cleaned_text, outcome, hashseed, raised, previous>>
    /\ UNCHANGED <<storeVars, currencyVars, dateVars, askVars, postVars>>

\* Line 61: return claim_data.
ExtractReturn ==
    /\ xpc = "fields"
    /\ Len(ran) = 1 + Len(Extractors)
    /\ outcome' = [kind |-> "claim", val |-> claim_data]
    /\ xpc' = "done"
    /\ UNCHANGED <<ocr_text, cleaned_text, ran, claim_data, hashseed, raised, previous>>
    /\ UNCHANGED <<storeVars, currencyVars, dateVars, askVars, postVars>>

\* Lines 42-68: a helper called inside the try block raises e before the
\* return statement is reached; the except clause catches it and raises
\* ExtractionError in its place. The entries of the dict display evaluated so
\* far are dropped with the frame.
ExtractRaise ==
    /\ xpc \in {"clean", "fields"}
    /\ \E e \in Faults :
        /\ raised' = e
        /\ outcome' = ExceptClause(e)
    /\ xpc' = "done"
    /\ UNCHANGED <<ocr_text, cleaned_text, ran, claim_data, hashseed, previous>>
    /\ UNCHANGED <<storeVars, currencyVars, dateVars, askVars, postVars>>

\* The state in which a further call on the same text starts: the result of
\* the call before is kept aside and nothing else is carried over, the
\* function keeping no state between calls.
CallAgain ==
    /\ xpc = "done"
    /\ previous = NoRet
    /\ previous' = outcome
    /\ xpc' = "check"
    /\ cleaned_text' = None
    /\ ran' = <<>>
    /\ outcome' = NoRet
    /\ claim_data' = EmptyDict
    /\ raised' = NoRet
    /\ UNCHANGED ocr_text
    /\ UNCHANGED <<storeVars, currencyVars, dateVars, askVars, postVars>>

\* The same text is given to extract_claim_data again by the same process.
ExtractAgain ==
    /\ CallAgain
    /\ UNCHANGED hashseed

\* The same text is given to extract_claim_data again after the service was
\* restarted: the new interpreter process draws its own string hash seed.
ExtractAfterRestart ==
    /\ CallAgain
    /\ hashseed' \in HashSeeds

\* extract_claim_document, lines 83-87: the keys of response_data =
\* {"document_id": ..., "ocr_mode": ..., **claim_data}, claim_data being what
\* extract_claim_data returned; what store_claim returned is not used.
ResponseKeys == {"document_id", "ocr_mode"} \cup Range(ClaimKeys)

ExtractNext ==
    \/ ExtractCheck
    \/ ExtractClean
    \/ ExtractField
    \/ ExtractReturn

\* ------------------------------------------------------------------ qa_service

\* dict.get(key, default)
Get(d, key, default) == IF key \in DOMAIN d THEN d[key] ELSE default

\* part in text, for strings
In(part, text) ==
    \E i \in 1..(Len(text) - Len(part) + 1) : SubSeq(text, i, i + Len(part) - 1) = part

\* _get_medication_reasoning
get_medication_reasoning(medication_name, diagnosis) ==
    LET medication_lower == lower(medication_name)
        diagnosis_lower == lower(diagnosis)
    IN  IF In(<<"p", "a", "r", "a", "c", "e", "t", "a", "m", "o", "l">>, medication_lower) \/ In(<<"a", "c", "e", "t", "a", "m", "i", "n", "o", "p", "h", "e", "n">>, medication_lower)
        THEN IF In(<<"m", "a", "l", "a", "r", "i", "a">>, diagnosis_lower)
             THEN <<"t", "o", " ", "r", "e", "d", "u", "c", "e", " ", "f", "e", "v", "e", "r", " ", "a", "n", "d", " ", "a", "l", "l", "e", "v", "i", "a", "t", "e", " ", "p", "a", "i", "n", " ", "a", "s", "s", "o", "c", "i", "a", "t", "e", "d", " ", "w", "i", "t", "h", " ", "m", "a", "l", "a", "r", "i", "a", " ", "i", "n", "f", "e", "c", "t", "i", "o", "n">>
             ELSE IF In(<<"f", "e", "v", "e", "r">>, diagnosis_lower)
             THEN <<"t", "o", " ", "r", "e", "d", "u", "c", "e", " ", "e", "l", "e", "v", "a", "t", "e", "d", " ", "b", "o", "d", "y", " ", "t", "e", "m", "p", "e", "r", "a", "t", "u", "r", "e", " ", "a", "n", "d", " ", "p", "r", "o", "v", "i", "d", "e", " ", "p", "a", "i", "n", " ", "r", "e", "l", "i", "e", "f">>
             ELSE IF In(<<"h", "e", "a", "d", "a", "c", "h", "e">>, diagnosis_lower)
             THEN <<"t", "o", " ", "p", "r", "o", "v", "i", "d", "e", " ", "e", "f", "f", "e", "c", "t", "i", "v", "e", " ", "p", "a", "i", "n", " ", "r", "e", "l", "i", "e", "f", " ", "f", "o", "r", " ", "h", "e", "a", "d", "a", "c", "h", "e", " ", "s", "y", "m", "p", "t", "o", "m", "s">>
             ELSE <<"t", "o", " ", "m", "a", "n", "a", "g", "e", " ", "p", "a", "i", "n", " ", "a", "n", "d", " ", "r", "e", "d", "u", "c", "e", " ", "f", "e", "v", "e", "r", " ", "s", "y", "m", "p", "t", "o", "m", "s">>
        ELSE IF In(<<"a", "r", "t", "e", "m", "e", "t", "h", "e", "r">>, medication_lower) \/ In(<<"l", "u", "m", "e", "f", "a", "n", "t", "r", "i", "n", "e">>, medication_lower)
        THEN <<"a", "s", " ", "a", "n", " ", "a", "n", "t", "i", "m", "a", "l", "a", "r", "i", "a", "l", " ", "t", "r", "e", "a", "t", "m", "e", "n", "t", " ", "t", "o", " ", "e", "l", "i", "m", "i", "n", "a", "t", "e", " ", "m", "a", "l", "a", "r", "i", "a", " ", "p", "a", "r", "a", "s", "i", "t", "e", "s", " ", "f", "r", "o", "m", " ", "t", "h", "e", " ", "b", "l", "o", "o", "d">>
        ELSE IF In(<<"i", "b", "u", "p", "r", "o", "f", "e", "n">>, medication_lower)
        THEN <<"t", "o", " ", "r", "e", "d", "u", "c", "e", " ", "i", "n", "f", "l", "a", "m", "m", "a", "t", "i", "o", "n", ",", " ", "f", "e", "v", "e", "r", ",", " ", "a", "n", "d", " ", "p", "r", "o", "v", "i", "d", "e", " ", "p", "a", "i", "n", " ", "r", "e", "l", "i", "e", "f">>
        ELSE IF In(<<"a", "s", "p", "i", "r", "i", "n">>, medication_lower)
        THEN <<"t", "o", " ", "r", "e", "d", "u", "c", "e", " ", "p", "a", "i", "n", ",", " ", "i", "n", "f", "l", "a", "m", "m", "a", "t", "i", "o", "n", ",", " ", "a", "n", "d", " ", "f", "e", "v", "e", "r", ",", " ", "a", "n", "d", " ", "p", "o", "t", "e", "n", "t", "i", "a", "l", "l", "y", " ", "f", "o", "r", " ", "c", "a", "r", "d", "i", "o", "v", "a", "s", "c", "u", "l", "a", "r", " ", "p", "r", "o", "t", "e", "c", "t", "i", "o", "n">>
        ELSE IF In(<<"a", "m", "o", "x", "i", "c", "i", "l", "l", "i", "n">>, medication_lower)
        THEN <<"a", "s", " ", "a", "n", " ", "a", "n", "t", "i", "b", "i", "o", "t", "i", "c", " ", "t", "o", " ", "t", "r", "e", "a", "t", " ", "b", "a", "c", "t", "e", "r", "i", "a", "l", " ", "i", "n", "f", "e", "c", "t", "i", "o", "n", "s", " ", "a", "n", "d", " ", "p", "r", "e", "v", "e", "n", "t", " ", "c", "o", "m", "p", "l", "i", "c", "a", "t", "i", "o", "n", "s">>
        ELSE IF In(<<"c", "h", "l", "o", "r", "o", "q", "u", "i", "n", "e">>, medication_lower)
        THEN <<"t", "o", " ", "t", "r", "e", "a", "t", " ", "a", "n", "d", " ", "p", "r", "e", "v", "e", "n", "t", " ", "m", "a", "l", "a", "r", "i", "a", " ", "b", "y", " ", "e", "l", "i", "m", "i", "n", "a", "t", "i", "n", "g", " ", "p", "a", "r", "a", "s", "i", "t", "e", "s", " ", "f", "r", "o", "m", " ", "t", "h", "e", " ", "b", "l", "o", "o", "d">>
        ELSE IF In(<<"m", "e", "t", "f", "o", "r", "m", "i", "n">>, medication_lower)
        THEN <<"t", "o", " ", "h", "e", "l", "p", " ", "m", "a", "n", "a", "g", "e", " ", "b", "l", "o", "o", "d", " ", "s", "u", "g", "a", "r", " ", "l", "e", "v", "e", "l", "s", " ", "i", "n", " ", "p", "a", "t", "i", "e", "n", "t", "s", " ", "w", "i", "t", "h", " ", "d", "i", "a", "b", "e", "t", "e", "s">>
        ELSE IF In(<<"m", "u", "l", "t", "i", "p", "l", "e", " ", "m", "e", "d", "i", "c", "a", "t", "i", "o", "n", "s">>, medication_lower)
        THEN IF In(<<"m", "a", "l", "a", "r", "i", "a">>, diagnosis_lower)
             THEN <<"t", "o", " ", "p", "r", "o", "v", "i", "d", "e", " ", "c", "o", "m", "p", "r", "e", "h", "e", "n", "s", "i", "v", "e", " ", "t", "r", "e", "a", "t", "m", "e", "n", "t", " ", "f", "o", "r", " ", "m", "a", "l", "a", "r", "i", "a", ",", " ", "i", "n", "c", "l", "u", "d", "i", "n", "g", " ", "f", "e", "v", "e", "r", " ", "r", "e", "d", "u", "c", "t", "i", "o", "n", " ", "a", "n", "d", " ", "p", "a", "r", "a", "s", "i", "t", "e", " ", "e", "l", "i", "m", "i", "n", "a", "t", "i", "o", "n">>
             ELSE <<"t", "o", " ", "c", "o", "m", "p", "r", "e", "h", "e", "n", "s", "i", "v", "e", "l", "y", " ", "t", "r", "e", "a", "t", " ">> \o diagnosis_lower \o <<" ", "a", "n", "d", " ", "m", "a", "n", "a", "g", "e", " ", "a", "s", "s", "o", "c", "i", "a", "t", "e", "d", " ", "s", "y", "m", "p", "t", "o", "m", "s">>
        ELSE IF In(<<"m", "a", "l", "a", "r", "i", "a">>, diagnosis_lower)
        THEN <<"t", "o", " ", "t", "r", "e", "a", "t", " ", "m", "a", "l", "a", "r", "i", "a", " ", "i", "n", "f", "e", "c", "t", "i", "o", "n", " ", "a", "n", "d", " ", "m", "a", "n", "a", "g", "e", " ", "i", "t", "s", " ", "a", "s", "s", "o", "c", "i", "a", "t", "e", "d", " ", "s", "y", "m", "p", "t", "o", "m", "s">>
        ELSE IF In(<<"f", "e", "v", "e", "r">>, diagnosis_lower)
        THEN <<"t", "o", " ", "r", "e", "d", "u", "c", "e", " ", "f", "e", "v", "e", "r", " ", "a", "n", "d", " ", "p", "r", "o", "v", "i", "d", "e", " ", "s", "y", "m", "p", "t", "o", "m", "a", "t", "i", "c", " ", "r", "e", "l", "i", "e", "f">>
        ELSE IF In(<<"i", "n", "f", "e", "c", "t", "i", "o", "n">>, diagnosis_lower)
        THEN <<"t", "o", " ", "t", "r", "e", "a", "t", " ", "t", "h", "e", " ">> \o diagnosis_lower \o <<" ", "a", "n", "d", " ", "p", "r", "e", "v", "e", "n", "t", " ", "c", "o", "m", "p", "l", "i", "c", "a", "t", "i", "o", "n", "s">>
        ELSE IF In(<<"p", "a", "i", "n">>, diagnosis_lower)
        THEN <<"t", "o", " ", "p", "r", "o", "v", "i", "d", "e", " ", "e", "f", "f", "e", "c", "t", "i", "v", "e", " ", "p", "a", "i", "n", " ", "m", "a", "n", "a", "g", "e", "m", "e", "n", "t", " ", "f", "o", "r", " ">> \o diagnosis_lower
        ELSE <<"t", "o", " ", "t", "r", "e", "a", "t", " ">> \o diagnosis_lower \o <<" ", "a", "n", "d", " ", "m", "a", "n", "a", "g", "e", " ", "r", "e", "l", "a", "t", "e", "d", " ", "s", "y", "m", "p", "t", "o", "m", "s">>

\* _answer_medication_question: med_details of one medication.
med_details(med) ==
    LET dosage == Get(med, "dosage", <<>>)
        quantity == Get(med, "quantity", <<>>)
    IN  Get(med, "name", <<"U", "n", "k", "n", "o", "w", "n", " ", "m", "e", "d", "i", "c", "a", "t", "i", "o", "n">>)
            \o (IF dosage # <<>> THEN <<" ", "(">> \o dosage \o <<")">> ELSE <<>>)
            \o (IF quantity # <<>> THEN <<" ", "-", " ">> \o quantity ELSE <<>>)

\* " ".join(answers)
RECURSIVE JoinSpaced(_)
JoinSpaced(answers) ==
    IF answers = <<>> THEN <<>>
    ELSE IF Len(answers) = 1 THEN answers[1]
    ELSE answers[1] \o <<" ">> \o JoinSpaced(Tail(answers))

\* _answer_medication_question
answer_medication_question(claim) ==
    LET medications == Get(claim, "medications", <<>>)
        diagnoses == Get(claim, "diagnoses", <<>>)
        primary_diagnosis == IF diagnoses # <<>> THEN diagnoses[1] ELSE <<>>
        name(med) == Get(med, "name", <<"U", "n", "k", "n", "o", "w", "n", " ", "m", "e", "d", "i", "c", "a", "t", "i", "o", "n">>)
    IN  IF medications = <<>>
        THEN <<"N", "o", " ", "m", "e", "d", "i", "c", "a", "t", "i", "o", "n", " ", "i", "n", "f", "o", "r", "m", "a", "t", "i", "o", "n", " ", "w", "a", "s", " ", "f", "o", "u", "n", "d", " ", "i", "n", " ", "t", "h", "e", " ", "c", "l", "a", "i", "m", " ", "d", "o", "c", "u", "m", "e", "n", "t", ".">>
        ELSE IF Len(medications) = 1
        THEN IF diagnoses # <<>>
             THEN med_details(medications[1]) \o <<" ", "w", "a", "s", " ", "p", "r", "e", "s", "c", "r", "i", "b", "e", "d", " ">>
                    \o get_medication_reasoning(name(medications[1]), primary_diagnosis) \o <<".">>
             ELSE med_details(medications[1]) \o <<" ", "w", "a", "s", " ", "p", "r", "e", "s", "c", "r", "i", "b", "e", "d", " ", "a", "s", " ", "p", "a", "r", "t", " ", "o", "f", " ", "t", "h", "e", " ", "t", "r", "e", "a", "t", "m", "e", "n", "t", " ", "p", "l", "a", "n", ".">>
        ELSE JoinSpaced([k \in 1..Len(medications) |->
                med_details(medications[k]) \o <<" ", "w", "a", "s", " ", "p", "r", "e", "s", "c", "r", "i", "b", "e", "d", " ">>
                    \o get_medication_reasoning(name(medications[k]), primary_diagnosis) \o <<".">>])

answer_question_Asked(claim, question) == question \o answer_medication_question(claim)

\* answer_question: the question takes no part in the answer.
answer_question(claim, question) == answer_medication_question(claim)

\* ------------------------------------------------------------------ POST /ask

\* The claim records behind the payloads of the store, as extract_claim_data
\* builds them. claimC has the medications and diagnoses of claimA and
\* differs from it in the other fields.
ClaimContent ==
    [claimA |->
        [patient |-> [name |-> <<"A", "n", "n">>, age |-> 34],
         diagnoses |-> <<<<"M", "a", "l", "a", "r", "i", "a">>>>,
         medications |-> <<[name |-> <<"P", "a", "r", "a", "c", "e", "t", "a", "m", "o", "l">>, dosage |-> <<"5", "0", "0", "m", "g">>, quantity |-> <<"1", "0", " ", "t", "a", "b", "l", "e", "t", "s">>]>>,
         procedures |-> <<<<"M", "a", "l", "a", "r", "i", "a", " ", "T", "e", "s", "t">>>>,
         admission |-> [was_admitted |-> FALSE, admission_date |-> None, discharge_date |-> None],
         total_amount |-> <<"₦", "1", "5", ".", "0", "0">>],
     claimB |->
        [patient |-> [age |-> 7],
         diagnoses |-> <<<<"F", "l", "u">>, <<"C", "o", "l", "d">>>>,
         medications |-> <<[name |-> <<"I", "b", "u", "p", "r", "o", "f", "e", "n">>, dosage |-> <<"2", "5", "m", "g">>, quantity |-> <<"6", " ", "t", "a", "b", "l", "e", "t", "s">>],
                           [name |-> <<"Z", "i", "n", "c">>, dosage |-> <<>>, quantity |-> <<"A", "s", " ", "p", "r", "e", "s", "c", "r", "i", "b", "e", "d">>]>>,
         procedures |-> <<<<"X", "-", "R", "a", "y">>>>,
         admission |-> [was_admitted |-> TRUE, admission_date |-> <<"2", "0", "2", "3", "-", "0", "6", "-", "1", "0">>,
                        discharge_date |-> <<"2", "0", "2", "3", "-", "0", "6", "-", "1", "2">>],
         total_amount |-> <<"₦", "1", ",", "2", "3", "4", ".", "5", "6">>],
     claimC |->
        [patient |-> [name |-> <<"J", "a", "n", "e", " ", "D", "o", "e">>, age |-> 34],
         diagnoses |-> <<<<"M", "a", "l", "a", "r", "i", "a">>>>,
         medications |-> <<[name |-> <<"P", "a", "r", "a", "c", "e", "t", "a", "m", "o", "l">>, dosage |-> <<"5", "0", "0", "m", "g">>, quantity |-> <<"1", "0", " ", "t", "a", "b", "l", "e", "t", "s">>]>>,
         procedures |-> <<<<"B", "l", "o", "o", "d", " ", "T", "e", "s", "t">>>>,
         admission |-> [was_admitted |-> TRUE, admission_date |-> <<"2", "0", "2", "3", "-", "0", "2", "-", "0", "1">>, discharge_date |-> None],
         total_amount |-> <<"₦", "1", "5", ",", "0", "0", "0">>]]

AskClaims == DOMAIN ClaimContent

\* The text of a document id.
DocumentIdText == [id1 |-> <<"i", "d", "1">>, id2 |-> <<"i", "d", "2">>, id3 |-> <<"i", "d", "3">>]

\* The document ids a request can carry: empty, blank, stored or not.
RequestIds == {<<>>, <<" ">>, DocumentIdText["id1"], DocumentIdText["id2"]}

\* The key of _CLAIM_STORE that a request's document id is.
StoreKey(text) ==
    IF \E i \in DocumentIds : DocumentIdText[i] = text
    THEN CHOOSE i \in DocumentIds : DocumentIdText[i] = text
    ELSE NoId

QuestionChars == {" ", "a"}

RECURSIVE QuestionsUpTo(_)
QuestionsUpTo(n) ==
    IF n = 0 THEN {<<>>}
    ELSE LET shorter == QuestionsUpTo(n - 1)
         IN  shorter \cup {Append(q, c) : q \in {x \in shorter : Len(x) = n - 1}, c \in QuestionChars}

Questions == QuestionsUpTo(MaxQuestionLen) \cup {<<"H", "o", "w", " ", "o", "l", "d", " ", "i", "s", " ", "t", "h", "e", " ", "p", "a", "t", "i", "e", "n", "t", "?">>}

ErrorTypes == {"ValidationError", "DocumentNotFound", "HTTP_404", "UnexpectedError"}

NoRequest == [document_id |-> <<>>, question |-> <<>>]

\* No request is being handled and none has been.
AskIdle ==
    /\ apc = "idle"
    /\ ask_request = NoRequest
    /\ ask_claim = 0
    /\ ask_response = NoRet
    /\ ask_previous = NoRet
    /\ ask_steps = <<>>
    /\ ERROR_COUNTER = [e \in ErrorTypes |-> 0]
    /\ REQUEST_COUNTER = 0

\* generate_document_id: str(uuid.uuid4()), an id that was not generated
\* before. Ids are opaque, so the first unused one stands for any of them.
generate_document_id_Fixed == "id1"

generate_document_id ==
    CHOOSE i \in DocumentIds \ issued :
        \A o \in DocumentIds \ issued : ~TextLess(DocumentIdText[o], DocumentIdText[i])

\* The store operations as a request handler runs them. Handlers are
\* coroutines of one event loop and the store operations do not await, so a
\* call runs from taking the lock to releasing it with no other handler in
\* between.

\* store_claim(document_id, claim)
StoreClaimCall(document_id, claim) ==
    /\ ~STORAGE_LOCK
    /\ \E c1 \in clock..MaxTick : \E c2 \in c1..MaxTick :
        /\ clock' = c2
        /\ heap' = [r \in DOMAIN heap \cup {NewRef} |->
                      IF r = NewRef
                      THEN [claim |-> claim,
                            metadata |-> NewMetadata(document_id, isoformat(utcnow(c1)),
                                                     isoformat(utcnow(c2)))]
                      ELSE heap[r]]
    /\ CLAIM_STORE' = [k \in DOMAIN CLAIM_STORE \cup {document_id} |->
                         IF k = document_id THEN NewRef ELSE CLAIM_STORE[k]]
    /\ stored' = stored \cup {document_id}
    /\ reads' = [reads EXCEPT ![document_id] = 0]
    /\ DOCUMENTS_PROCESSED' = DOCUMENTS_PROCESSED + 1
    /\ DOCUMENTS_IN_STORAGE' = Cardinality(DOMAIN CLAIM_STORE')
    /\ UNCHANGED <<STORAGE_LOCK, pc, call, local, tmp, ret, ncalls, universe>>

\* clear_all_claims(), from taking the lock to releasing it.
ClearCall ==
    /\ ~STORAGE_LOCK
    /\ CLAIM_STORE' = [k \in {} |-> 0]
    /\ DOCUMENTS_IN_STORAGE' = 0
    /\ heap' = Collect(heap, CLAIM_STORE', local, ret)
    /\ stored' = {}
    /\ reads' = [i \in DocumentIds |-> 0]
    /\ UNCHANGED <<STORAGE_LOCK, clock, DOCUMENTS_PROCESSED, pc, call, local, tmp, ret, ncalls,
                   universe>>

\* delete_claim(document_id) of a stored document, from taking the lock to
\* releasing it.
DeleteCall(document_id) ==
    /\ ~STORAGE_LOCK
    /\ document_id \in DOMAIN CLAIM_STORE
    /\ CLAIM_STORE' = [k \in DOMAIN CLAIM_STORE \ {document_id} |-> CLAIM_STORE[k]]
    /\ DOCUMENTS_IN_STORAGE' = Cardinality(DOMAIN CLAIM_STORE')
    /\ heap' = Collect(heap, CLAIM_STORE', local, ret)
    /\ stored' = stored \ {document_id}
    /\ reads' = [reads EXCEPT ![document_id] = 0]
    /\ UNCHANGED <<STORAGE_LOCK, clock, DOCUMENTS_PROCESSED, pc, call, local, tmp, ret, ncalls,
                   universe>>

\* extract_claim_document, lines 76-80: a document has been read and
\* extract_claim_data has returned its claim; generate_document_id gives an
\* id not in use and store_claim stores the claim under it. One document is
\* stored, before the questions.
ExtractStore ==
    /\ apc = "idle"
    /\ DOMAIN CLAIM_STORE = {}
    /\ \E claim \in AskClaims : StoreClaimCall(generate_document_id, claim)
    /\ issued' = issued \cup {generate_document_id}
    /\ UNCHANGED <<ppc, upload, post_response>>
    /\ UNCHANGED <<extractVars, currencyVars, dateVars, askVars>>

\* validate_question: the exception it raises, NoRet when it returns.
validate_question_NotEmpty(question) ==
    IF question = <<>>
    THEN [kind |-> "ValidationError", val |-> <<"Question must be a non-empty string">>]
    ELSE NoRet

validate_question(question) ==
    IF question = <<>> \/ strip(question) = <<>>
    THEN [kind |-> "ValidationError", val |-> <<"Question must be a non-empty string">>]
    ELSE NoRet

\* ask_question, lines 77-81: the check of request.document_id.
validate_request_id(document_id) ==
    IF strip(document_id) = <<>>
    THEN [kind |-> "ValidationError", val |-> <<"Document ID must be a non-empty string">>]
    ELSE NoRet

\* ask_question, line 99
overridden_question == <<"W", "h", "a", "t", " ", "m", "e", "d", "i", "c", "a", "t", "i", "o", "n", " ", "i", "s", " ", "u", "s", "e", "d", " ", "a", "n", "d", " ", "w", "h", "y", "?">>

\* HTTPException(status_code, detail) as the client sees it.
HTTPException(status_code, detail) == [kind |-> "response", status |-> status_code, body |-> detail]

\* JSONResponse(status_code=200, content={"answer": answer})
JSONResponse(answer) == [kind |-> "response", status |-> 200, body |-> answer]

\* A client posts a request to /ask.
AskReceive ==
    /\ apc = "idle"
    /\ ask_steps' = <<>>
    /\ \E document_id \in RequestIds : \E question \in Questions :
        ask_request' = [document_id |-> document_id, question |-> question]
    /\ apc' = "validate"
    /\ UNCHANGED <<ask_claim, ask_response, ask_previous, ERROR_COUNTER, REQUEST_COUNTER>>
    /\ UNCHANGED <<storeVars, extractVars, currencyVars, dateVars, postVars>>

\* Lines 73-82, and lines 123-131 for a ValidationError: the error counter,
\* then HTTPException 400, which is raised in the except clause and so
\* passes the clauses after it.
AskValidate ==
    /\ apc = "validate"
    /\ ask_steps' = Append(ask_steps, "validate")
    /\ LET e == IF validate_request_id(ask_request.document_id) # NoRet
                THEN validate_request_id(ask_request.document_id)
                ELSE validate_question(ask_request.question)
       IN  IF e # NoRet
           THEN /\ ERROR_COUNTER' = [ERROR_COUNTER EXCEPT !["ValidationError"] = @ + 1]
                /\ ask_response' = HTTPException(400, e.val)
                /\ apc' = "done"
           ELSE /\ apc' = "sleep"
                /\ UNCHANGED <<ERROR_COUNTER, ask_response>>
    /\ UNCHANGED <<ask_request, ask_claim, ask_previous, REQUEST_COUNTER>>
    /\ UNCHANGED <<storeVars, extractVars, currencyVars, dateVars, postVars>>

\* Line 86: await asyncio.sleep(2). The clock variable is the last reading of
\* the wall clock; the readings after the delay are later ones.
AskSleep ==
    /\ apc = "sleep"
    /\ ask_steps' = Append(ask_steps, "sleep")
    /\ apc' = "lookup"
    /\ UNCHANGED <<ask_request, ask_claim, ask_response, ask_previous, ERROR_COUNTER, REQUEST_COUNTER>>
    /\ UNCHANGED <<storeVars, extractVars, currencyVars, dateVars, postVars>>

\* Lines 89-96: get_claim(request.document_id) runs from taking the lock to
\* releasing it without another caller in between. A stored document gets
\* its last_accessed and access_count updated and is returned; for an
\* unknown id DocumentNotFoundError becomes HTTPException 404, counted once
\* where it is caught and once more by the except HTTPException clause
\* (lines 133-143).
AskGetClaim ==
    /\ apc = "lookup"
    /\ ask_steps' = Append(ask_steps, "get_claim")
    /\ ~STORAGE_LOCK
    /\ LET document_id == StoreKey(ask_request.document_id)
       IN  IF Lookup(document_id) # 0
           THEN /\ \E c \in clock..MaxTick :
                    /\ clock' = c
                    /\ heap' = [heap EXCEPT
                                  ![Lookup(document_id)].metadata.last_accessed = isoformat(utcnow(c)),
                                  ![Lookup(document_id)].metadata.access_count = Incremented(@)]
                /\ reads' = [reads EXCEPT ![document_id] = @ + 1]
                /\ ask_claim' = Lookup(document_id)
                /\ apc' = "answer"
                /\ UNCHANGED <<ERROR_COUNTER, ask_response>>
           ELSE /\ ERROR_COUNTER' = [ERROR_COUNTER EXCEPT !["DocumentNotFound"] = @ + 1,
                                                          !["HTTP_404"] = @ + 1]
                /\ ask_response' = HTTPException(404, NotFoundMessage(document_id))
                /\ apc' = "done"
                /\ UNCHANGED <<clock, heap, reads, ask_claim>>
    /\ UNCHANGED <<CLAIM_STORE, STORAGE_LOCK, DOCUMENTS_PROCESSED, DOCUMENTS_IN_STORAGE,
                   pc, call, local, tmp, ret, stored, ncalls, universe>>
    /\ UNCHANGED <<ask_request, ask_previous, REQUEST_COUNTER>>
    /\ UNCHANGED <<extractVars, currencyVars, dateVars, postVars>>

\* Lines 98-121: the question is overridden, the answer is made from the
\* claim, the request is counted and the response is sent.
AskAnswer ==
    /\ apc = "answer"
    /\ ask_steps' = Append(ask_steps, "answer_question")
    /\ ask_response' = JSONResponse(answer_question(ClaimContent[heap[ask_claim].claim],
                                                    overridden_question))
    /\ REQUEST_COUNTER' = REQUEST_COUNTER + 1
    /\ ask_claim' = 0
    /\ apc' = "done"
    /\ UNCHANGED <<ask_request, ask_previous, ERROR_COUNTER>>
    /\ UNCHANGED <<storeVars, extractVars, currencyVars, dateVars, postVars>>

\* The client asks about the same document once more, with any question.
AskAgain ==
    /\ apc = "done"
    /\ ask_steps' = <<>>
    /\ ask_previous = NoRet
    /\ ask_previous' = [kind |-> "exchange", request |-> ask_request, response |-> ask_response]
    /\ \E question \in Questions :
        ask_request' = [ask_request EXCEPT !.question = question]
    /\ ask_response' = NoRet
    /\ apc' = "validate"
    /\ UNCHANGED <<ask_claim, ERROR_COUNTER, REQUEST_COUNTER>>
    /\ UNCHANGED <<storeVars, extractVars, currencyVars, dateVars, postVars>>

AskNext ==
    \/ ExtractStore
    \/ AskReceive
    \/ AskValidate
    \/ AskSleep
    \/ AskGetClaim
    \/ AskAnswer
    \/ AskAgain

\* While a request to /ask waits out its delay, the event loop runs other
\* work: a request to /extract stores a document (here into an empty store),
DelayStore ==
    /\ apc = "sleep"
    /\ DOMAIN CLAIM_STORE = {}
    /\ DocumentIds \ issued # {}
    /\ \E claim \in AskClaims : StoreClaimCall(generate_document_id, claim)
    /\ issued' = issued \cup {generate_document_id}
    /\ UNCHANGED <<ppc, upload, post_response>>
    /\ UNCHANGED <<extractVars, currencyVars, dateVars, askVars>>

\* or the document asked about is deleted,
DelayDelete ==
    /\ apc = "sleep"
    /\ DeleteCall(StoreKey(ask_request.document_id))
    /\ UNCHANGED <<extractVars, currencyVars, dateVars, askVars, postVars>>

\* or the store is cleared.
DelayClear ==
    /\ apc = "sleep"
    /\ DOMAIN CLAIM_STORE # {}
    /\ ClearCall
    /\ UNCHANGED <<extractVars, currencyVars, dateVars, askVars, postVars>>

AskDelayNext ==
    \/ AskNext
    \/ DelayStore
    \/ DelayDelete
    \/ DelayClear

\* ------------------------------------------------------------------ POST /extract

\* An uploaded file, by what becomes of it: whether validate_upload_file
\* accepts its name, whether ocr_image reads it, and the claim that
\* extract_claim_data makes of its text, NoClaim when it raises
\* ExtractionError.
Uploads ==
    [filename_ok : BOOLEAN, ocr_ok : BOOLEAN, claim : ClaimData \cup {NoClaim}]

NoUpload == [filename_ok |-> FALSE, ocr_ok |-> FALSE, claim |-> NoClaim]

\* No request to /extract is being handled and none has been.
PostIdle ==
    /\ ppc = "idle"
    /\ upload = NoUpload
    /\ post_response = NoRet
    /\ issued = {}

\* A client posts a file to /extract, while an id is left to give it.
PostReceive ==
    /\ ppc \in {"idle", "done"}
    /\ DocumentIds \ issued # {}
    /\ upload' \in Uploads
    /\ post_response' = NoRet
    /\ ppc' = "validate"
    /\ UNCHANGED issued
    /\ UNCHANGED <<storeVars, extractVars, currencyVars, dateVars, askVars>>

\* Lines 58-60: validate_upload_file; lines 99-103 for its ValidationError.
PostValidate ==
    /\ ppc = "validate"
    /\ IF upload.filename_ok
       THEN /\ ppc' = "ocr"
            /\ UNCHANGED post_response
       ELSE /\ post_response' = HTTPException(400, <<"Unsupported file format">>)
            /\ ppc' = "done"
    /\ UNCHANGED <<upload, issued>>
    /\ UNCHANGED <<storeVars, extractVars, currencyVars, dateVars, askVars>>

\* Lines 62-69: file.read() and ocr_image; lines 105-109 for its OCRError.
PostOcr ==
    /\ ppc = "ocr"
    /\ IF upload.ocr_ok
       THEN /\ ppc' = "extract"
            /\ UNCHANGED post_response
       ELSE /\ post_response' = HTTPException(422, <<"OCR processing failed: ", "Unsupported or corrupted file format">>)
            /\ ppc' = "done"
    /\ UNCHANGED <<upload, issued>>
    /\ UNCHANGED <<storeVars, extractVars, currencyVars, dateVars, askVars>>

\* Lines 71-74: extract_claim_data; lines 111-115 for its ExtractionError.
PostExtractData ==
    /\ ppc = "extract"
    /\ IF upload.claim # NoClaim
       THEN /\ ppc' = "store"
            /\ UNCHANGED post_response
       ELSE /\ post_response' = HTTPException(422, <<"Data extraction failed: ">> \o Rewrapped("Empty OCR text provided"))
            /\ ppc' = "done"
    /\ UNCHANGED <<upload, issued>>
    /\ UNCHANGED <<storeVars, extractVars, currencyVars, dateVars, askVars>>

\* Lines 76-97: generate_document_id, store_claim, and the response with the
\* document id.
PostStore ==
    /\ ppc = "store"
    /\ StoreClaimCall(generate_document_id, upload.claim)
    /\ issued' = issued \cup {generate_document_id}
    /\ post_response' = [kind |-> "response", status |-> 200, body |-> <<generate_document_id>>]
    /\ ppc' = "done"
    /\ UNCHANGED upload
    /\ UNCHANGED <<extractVars, currencyVars, dateVars, askVars>>

PostClear ==
    /\ ppc \in {"idle", "done"}
    /\ DOMAIN CLAIM_STORE # {}
    /\ ClearCall
    /\ UNCHANGED <<extractVars, currencyVars, dateVars, askVars, postVars>>

PostNext ==
    \/ PostReceive
    \/ PostValidate
    \/ PostOcr
    \/ PostExtractData
    \/ PostStore
    \/ PostClear

\* ------------------------------------------------------------------ GET /health/storage

\* storage_health_check: the statistics are read, the gauge is set to their
\* "documents_stored" entry, 0 where the dict has no such key, and the
\* statistics are returned. The handler has no await.
StorageHealthCheck ==
    /\ ppc \in {"idle", "done"}
    /\ ~STORAGE_LOCK
    /\ LET storage_stats == get_storage_stats
           documents_count == Get(storage_stats, "documents_stored", 0)
       IN  DOCUMENTS_IN_STORAGE' = documents_count
    /\ UNCHANGED <<CLAIM_STORE, heap, STORAGE_LOCK, clock, DOCUMENTS_PROCESSED, pc, call, local,
                   tmp, ret, stored, reads, ncalls, universe>>
    /\ UNCHANGED serviceVars

\* delete_claim of a stored document, between requests.
HealthDelete ==
    /\ ppc \in {"idle", "done"}
    /\ \E document_id \in DOMAIN CLAIM_STORE : DeleteCall(document_id)
    /\ UNCHANGED serviceVars

HealthNext ==
    \/ PostNext
    \/ StorageHealthCheck
    \/ HealthDelete

\* ------------------------------------------------------------------ specifications

Init == StoreInit /\ universe \in Universes /\ ExtractIdle /\ CurrencyIdle /\ AskIdle /\ PostIdle
        /\ DateIdle

Next == StoreNext

\* The document store under concurrent callers.
Spec == Init /\ [][Next]_vars

\* A step of thread t inside an operation: its body and its release.
BodyStep(t) ==
    \/ StoreBuild(t) \/ StoreWrite(t)
    \/ GetLookup(t) \/ GetTouch(t) \/ GetIncrLoad(t) \/ GetIncrStore(t)
    \/ DeleteBody(t) \/ ListBody(t) \/ StatsBody(t) \/ ClearBody(t) \/ ExistsBody(t)
    \/ Release(t)

\* The scheduler runs every thread that can run, and a thread waiting for the
\* lock gets it at one of the times it is free.
Fairness ==
    \A t \in Threads : WF_vars(BodyStep(t)) /\ SF_vars(Acquire(t))

InitFair ==
    StoreInit /\ universe = [ids |-> {"id1"}, claims |-> {"claimA"}] /\ ExtractIdle /\ CurrencyIdle
        /\ AskIdle /\ PostIdle /\ DateIdle

\* The document store under concurrent callers that are scheduled fairly.
SpecFair == InitFair /\ [][Next]_vars /\ Fairness

InitExtract ==
    StoreInit /\ universe = [ids |-> {}, claims |-> {}] /\ ExtractInit /\ CurrencyIdle /\ AskIdle /\ PostIdle
        /\ DateIdle

\* One call of extract_claim_data on an arbitrary text.
SpecExtract == InitExtract /\ [][ExtractNext]_vars

NextExtractFaulty ==
    \/ ExtractNext
    \/ ExtractRaise

InitCurrency ==
    StoreInit /\ universe = [ids |-> {}, claims |-> {}] /\ ExtractIdle /\ CurrencyInit /\ AskIdle
        /\ PostIdle /\ DateIdle

\* One call of format_currency on an arbitrary string.
SpecCurrency == InitCurrency /\ [][FormatCurrency]_vars

InitAsk ==
    StoreInit /\ universe = [ids |-> {}, claims |-> {}] /\ ExtractIdle /\ CurrencyIdle /\ AskIdle /\ PostIdle
        /\ DateIdle

\* A document is stored and two requests are made to /ask.
SpecAsk == InitAsk /\ [][AskNext]_vars

\* Requests to /ask, with the store changing while they wait.
SpecAskDelay == InitAsk /\ [][AskDelayNext]_vars

InitDate ==
    StoreInit /\ universe = [ids |-> {}, claims |-> {}] /\ ExtractIdle /\ CurrencyIdle /\ AskIdle
        /\ PostIdle /\ DateInit

\* One call of _normalize_date.
SpecDate == InitDate /\ [][NormalizeDate]_vars

InitPost ==
    StoreInit /\ universe = [ids |-> {}, claims |-> {}] /\ ExtractIdle /\ CurrencyIdle /\ AskIdle
        /\ PostIdle /\ DateIdle

\* Requests to /extract, one after the other.
SpecPost == InitPost /\ [][PostNext]_vars

\* Requests to /extract and to /health/storage, and documents deleted.
SpecHealth == InitPost /\ [][HealthNext]_vars

NextRepeat ==
    \/ ExtractNext
    \/ ExtractAgain
    \/ ExtractAfterRestart

\* Two calls of extract_claim_data on the same text.
SpecRepeat == InitExtract /\ [][NextRepeat]_vars

\* One call of extract_claim_data in which any helper may raise.
SpecExtractFaulty == InitExtract /\ [][NextExtractFaulty]_vars

\* ------------------------------------------------------------------ properties

Quiescent == \A t \in Threads : ~InCS(t)

\* Thread t takes the step that leaves statement `at`.
Steps(t, at) == pc[t] = at /\ pc'[t] # at

AccessCount(i) == Metadata(i).access_count

\* C1: no lost updates.  Whenever no store operation is in progress, the
\* store holds exactly one record per id whose store_claim completed (and
\* was not deleted or cleared since), each under its own id, and each
\* record's access_count equals the number of successful get_claim calls
\* completed on that id since it was stored.
NoLostUpdates ==
    Quiescent =>
        /\ DOMAIN CLAIM_STORE = stored
        /\ \A i \in stored :
            /\ Metadata(i).document_id = i
            /\ AccessCount(i) = reads[i]
            /\ \A j \in stored : j # i => CLAIM_STORE[j] # CLAIM_STORE[i]

\* Two stores with distinct ids and one get on each have completed.
ParallelStoresThenGets ==
    /\ Quiescent
    /\ {"id1", "id2"} \subseteq stored
    /\ AccessCount("id1") = 1
    /\ AccessCount("id2") = 1
    /\ reads["id1"] = 1
    /\ reads["id2"] = 1

\* A get_claim has updated last_accessed of record r and not yet stored the
\* incremented access_count.
HalfUpdatedBy(t) == pc[t] \in {"get_incr_load", "get_incr_store"}

\* C2: the store operations are mutually exclusive.  At most one thread is
\* inside a `with _STORAGE_LOCK:` body, the lock is held for as long as it is
\* (so get_claim's lookup, last_accessed update and access_count increment
\* are one critical section), and while a record is half updated no other
\* operation is inside its body to observe it.
StoreOperationsExclusive ==
    /\ \A t, u \in Threads : t # u => ~(InCS(t) /\ InCS(u))
    /\ \A t \in Threads : InCS(t) => STORAGE_LOCK
    /\ \A t, u \in Threads : t # u /\ HalfUpdatedBy(t) => ~InCS(u)

\* A record is half updated while another caller waits for the lock.
HalfUpdatedWhileOtherWaits ==
    \E t, u \in Threads : t # u /\ HalfUpdatedBy(t) /\ pc[u] = "acquire"

\* C3: a successful get_claim returns a record whose access_count is the
\* number of successful get_claim calls on that id since it was stored, this
\* one included (k for the k-th), and whose last_accessed is not earlier than
\* its created_at, as times and as the strings they are stored as.
KthGetReturnsCountK ==
    \A t \in Threads :
        pc[t] = "exit" /\ call[t].op = "get_claim" /\ ret[t].kind = "ref" =>
            LET m == heap[ret[t].val].metadata IN
                /\ m.access_count = reads[call[t].document_id] + 1
                /\ TickOf(m.created_at) <= TickOf(m.last_accessed)
                /\ ~StrLess(m.last_accessed, m.created_at)

\* The second get_claim on an id returns, at a later time than the store.
SecondGetReturned ==
    \E t \in Threads :
        /\ pc[t] = "exit" /\ call[t].op = "get_claim" /\ ret[t].kind = "ref"
        /\ heap[ret[t].val].metadata.access_count = 2
        /\ heap[ret[t].val].metadata.created_at # heap[ret[t].val].metadata.last_accessed

\* Thread t is in a get_claim that finds, or has found, its id missing.
FailingGet(t) ==
    \/ pc[t] = "get_lookup" /\ Lookup(call[t].document_id) = 0
    \/ pc[t] = "exit" /\ call[t].op = "get_claim" /\ ret[t].kind = "DocumentNotFoundError"

\* C4: get_claim on an id that is not in the store raises
\* DocumentNotFoundError with a message that carries the id, and no step of
\* the failed call changes the store or any stored record.
MissingGetFailsCleanly ==
    [][\A t \in Threads :
        /\ Steps(t, "get_lookup") /\ Lookup(call[t].document_id) = 0 =>
            /\ ret'[t].kind = "DocumentNotFoundError"
            /\ \E k \in 1..Len(ret'[t].val) : ret'[t].val[k] = call[t].document_id
        /\ FailingGet(t) /\ pc'[t] # pc[t] =>
            /\ CLAIM_STORE' = CLAIM_STORE
            /\ heap' = heap]_vars

\* A get_claim failed while other documents, already read, are stored.
MissingGetFailed ==
    \E t \in Threads :
        /\ pc[t] = "exit" /\ call[t].op = "get_claim" /\ ret[t].kind = "DocumentNotFoundError"
        /\ \E i \in DOMAIN CLAIM_STORE : AccessCount(i) > 0

\* Thread t takes the step of store_claim that puts a record under id i.
StoreWrites(t, i) == Steps(t, "store_write") /\ call[t].document_id = i

\* C5, as claimed: the access_count held for an id never decreases, also when
\* store_claim is called again with an id that is already stored.
AccessCountNeverDecreases ==
    [][\A i \in DocumentIds :
        i \in DOMAIN CLAIM_STORE /\ i \in DOMAIN CLAIM_STORE' =>
            AccessCount(i)' >= AccessCount(i)]_vars

\* C5, amended: the access_count held for an id never decreases for as long as
\* the record stays the one stored under that id; the one step that lowers it
\* is a store_claim on an id already stored, which replaces the record and
\* starts its access_count again at 0.
AccessCountNeverDecreasesUntilReplaced ==
    [][\A i \in DocumentIds :
        i \in DOMAIN CLAIM_STORE /\ i \in DOMAIN CLAIM_STORE' =>
            IF \E t \in Threads : StoreWrites(t, i)
            THEN AccessCount(i)' = 0
            ELSE AccessCount(i)' >= AccessCount(i)]_vars

\* A store_claim has just replaced a record that had been read.
ReadRecordReplaced ==
    \E t \in Threads :
        /\ pc[t] = "exit" /\ call[t].op = "store_claim"
        /\ reads[call[t].document_id] > 0
        /\ AccessCount(call[t].document_id) = 0

\* C6: store_claim always succeeds, for a new id and for one already stored.
\* The record it builds holds the claim and metadata with the id, created_at
\* and last_accessed read from the clock during the call (created_at first)
\* and access_count 0; the write puts exactly that record under the id,
\* returns normally and leaves every other id's record as it was.
StoreClaimEffect ==
    [][\A t \in Threads :
        /\ Steps(t, "store_build") =>
            LET e == heap'[local'[t]] IN
                /\ local'[t] \notin DOMAIN heap
                /\ e.claim = call[t].claim_data
                /\ e.metadata.document_id = call[t].document_id
                /\ e.metadata.access_count = 0
                /\ clock <= TickOf(e.metadata.created_at)
                /\ TickOf(e.metadata.created_at) <= TickOf(e.metadata.last_accessed)
                /\ e.metadata.last_accessed = isoformat(utcnow(clock'))
        /\ Steps(t, "store_write") =>
            /\ pc'[t] = "exit"
            /\ ret'[t].kind = "None"
            /\ DOMAIN CLAIM_STORE' = DOMAIN CLAIM_STORE \cup {call[t].document_id}
            /\ CLAIM_STORE'[call[t].document_id] = local[t]
            /\ heap'[local[t]] = heap[local[t]]
            /\ \A j \in DOMAIN CLAIM_STORE \ {call[t].document_id} :
                /\ CLAIM_STORE'[j] = CLAIM_STORE[j]
                /\ heap'[CLAIM_STORE'[j]] = heap[CLAIM_STORE[j]]]_vars

\* A store_claim has overwritten an id that was stored with another payload,
\* while a second document that has been read is in the store.
StoredOverOtherPayload ==
    \E t \in Threads :
        /\ pc[t] = "exit" /\ call[t].op = "store_claim"
        /\ call[t].document_id \in stored
        /\ call[t].claim_data = "claimB"
        /\ \E j \in DOMAIN CLAIM_STORE \ {call[t].document_id} : AccessCount(j) > 0

\* C7: a stored document leaves the store only in a step of delete_claim on
\* its id or of clear_all_claims; and while it is stored, document_exists on
\* its id returns true and get_claim on its id does not raise.
RemovedOnlyByDeleteOrClear ==
    [][/\ \A i \in DOMAIN CLAIM_STORE :
            i \notin DOMAIN CLAIM_STORE' =>
                \E t \in Threads :
                    \/ Steps(t, "delete_body") /\ call[t].document_id = i
                    \/ Steps(t, "clear_body")
       /\ \A t \in Threads :
            /\ Steps(t, "exists_body") /\ call[t].document_id \in DOMAIN CLAIM_STORE =>
                ret'[t] = [kind |-> "bool", val |-> TRUE]
            /\ Steps(t, "get_lookup") /\ call[t].document_id \in DOMAIN CLAIM_STORE =>
                /\ pc'[t] = "get_touch"
                /\ local'[t] = CLAIM_STORE[call[t].document_id]
                /\ ret'[t].kind # "DocumentNotFoundError"]_vars

\* document_exists has answered for a document that was read before, with a
\* second document in the store.
ExistsAnsweredAfterRead ==
    \E t \in Threads :
        /\ pc[t] = "exit" /\ call[t].op = "document_exists"
        /\ ret[t].kind = "bool"
        /\ reads[call[t].document_id] > 0
        /\ Cardinality(DOMAIN CLAIM_STORE) = 2

\* C8: clear_all_claims returns the number of documents in the store before
\* it ran and leaves the store empty: right after it get_storage_stats would
\* report total_documents 0, list_all_claims would be empty and get_claim
\* would find no id.
ClearReturnsPriorCount ==
    [][\A t \in Threads :
        Steps(t, "clear_body") =>
            /\ ret'[t] = [kind |-> "int", val |-> Cardinality(DOMAIN CLAIM_STORE)]
            /\ DOMAIN CLAIM_STORE' = {}
            /\ get_storage_stats'.total_documents = 0
            /\ list_all_claims' = {}
            /\ \A i \in DocumentIds : Lookup(i)' = 0]_vars

\* Three documents were stored and clear_all_claims has returned 3.
ClearedThree ==
    \E t \in Threads :
        /\ pc[t] = "exit" /\ call[t].op = "clear_all_claims"
        /\ ret[t] = [kind |-> "int", val |-> 3]
        /\ DOMAIN CLAIM_STORE = {}

\* What get_storage_stats has to report in the current state.
StatsAsSpecified(s) ==
    LET ids == DOMAIN CLAIM_STORE
        n == Cardinality(ids)
        total == SumOver([i \in ids |-> AccessCount(i)], ids)
        ticks == {TickOf(Metadata(i).created_at) : i \in ids}
    IN  IF n = 0
        THEN s = [total_documents |-> 0, oldest_document |-> None, newest_document |-> None,
                  total_access_count |-> 0, avg_access_count |-> [num |-> 0, den |-> 1]]
        ELSE /\ s.total_documents = n
             /\ s.total_access_count = total
             /\ s.avg_access_count.den > 0
             /\ s.avg_access_count.num * n = total * s.avg_access_count.den
             /\ \E c \in ticks :
                    /\ \A o \in ticks : c <= o
                    /\ s.oldest_document = isoformat(utcnow(c))
             /\ \E c \in ticks :
                    /\ \A o \in ticks : c >= o
                    /\ s.newest_document = isoformat(utcnow(c))

\* C9: whenever it is called, get_storage_stats returns the number of stored
\* ids, the sum and the mean of their access counts and the earliest and
\* latest created_at (0, None, None, 0, 0 for the empty store, with no
\* division), and the call changes neither the store nor any record.
StatsReportTheStore ==
    [][\A t \in Threads :
        Steps(t, "stats_body") =>
            /\ ret'[t].kind = "stats"
            /\ StatsAsSpecified(ret'[t].val)
            /\ CLAIM_STORE' = CLAIM_STORE
            /\ heap' = heap]_vars

\* get_storage_stats has reported two documents created at different times
\* with a mean access count that is not a whole number.
StatsReportedTwo ==
    \E t \in Threads :
        /\ pc[t] = "exit" /\ call[t].op = "get_storage_stats"
        /\ ret[t].kind = "stats"
        /\ ret[t].val.total_documents = 2
        /\ ret[t].val.oldest_document # ret[t].val.newest_document
        /\ ret[t].val.avg_access_count.den = 2

\* The text is empty or consists of whitespace only.
WhitespaceOnly(text) == \A k \in 1..Len(text) : IsSpace(text[k])

\* C10: for empty or whitespace-only input extract_claim_data calls neither
\* the normalizer nor any field extractor, produces no claim record, and
\* ends by raising ExtractionError.
BlankInputRejected ==
    WhitespaceOnly(ocr_text) /\ xpc # "off" =>
        /\ ran = <<>>
        /\ cleaned_text = None
        /\ outcome.kind # "claim"
        /\ xpc \in {"check", "done"}
        /\ xpc = "done" => outcome.kind = "ExtractionError"

\* A non-empty whitespace-only text has been rejected.
WhitespaceTextRejected ==
    /\ xpc = "done"
    /\ Len(ocr_text) >= 2
    /\ WhitespaceOnly(ocr_text)
    /\ outcome = [kind |-> "ExtractionError",
                  val |-> <<"Failed to extract claim data: ", "Empty OCR text provided">>]

\* extract_claim_data has returned a claim record.
Returned == xpc = "done" /\ outcome.kind = "claim"

\* A list with at least one entry, none of them empty.
Filled(items) == Len(items) >= 1 /\ \A k \in 1..Len(items) : items[k] # <<>>

\* C11: for every text that is not empty or whitespace-only,
\* extract_claim_data returns a record with all six keys, in which patient is
\* not empty, diagnoses, medications and procedures have at least one entry
\* each, and total_amount is a non-empty string: where nothing is extracted
\* the default stands, no key is missing and no field is empty.
NonBlankTextYieldsFullRecord ==
    xpc = "done" /\ ~WhitespaceOnly(ocr_text) =>
        /\ outcome.kind = "claim"
        /\ DOMAIN outcome.val = Range(ClaimKeys)
        /\ DOMAIN outcome.val.patient # {}
        /\ Filled(outcome.val.diagnoses)
        /\ Len(outcome.val.medications) >= 1
        /\ \A k \in 1..Len(outcome.val.medications) :
            /\ DOMAIN outcome.val.medications[k] = {"name", "dosage", "quantity"}
            /\ outcome.val.medications[k].name # <<>>
        /\ Filled(outcome.val.procedures)
        /\ DOMAIN outcome.val.admission = {"was_admitted", "admission_date", "discharge_date"}
        /\ outcome.val.total_amount # <<>>
        /\ Search(cleaned_text, DiagnosisPattern1).ok \/ Search(cleaned_text, DiagnosisPattern2).ok
            \/ Search(cleaned_text, DiagnosisPattern3).ok
            \/ \E k \in 1..Len(common_conditions) : HasWord(cleaned_text, common_conditions[k])
            \/ outcome.val.diagnoses = <<<<"M", "a", "l", "a", "r", "i", "a">>>>

\* A record for a text that names an age and an amount but no diagnosis, no
\* medication and no procedure: those three stand at their defaults.
RecordWithDefaults ==
    /\ Returned
    /\ outcome.val.patient = [age |-> 34]
    /\ ~Search(cleaned_text, DiagnosisPattern1).ok
    /\ outcome.val.diagnoses = <<<<"M", "a", "l", "a", "r", "i", "a">>>>
    /\ outcome.val.medications = <<SampleMedication(<<"P", "a", "r", "a", "c", "e", "t", "a", "m", "o", "l">>)>>
    /\ outcome.val.procedures = <<<<"M", "a", "l", "a", "r", "i", "a", " ", "T", "e", "s", "t">>>>
    /\ outcome.val.total_amount = <<"₦", "1", ",", "2", "3", "4", ".", "5", "6">>

\* C12: extract_claim_data has one error kind and is all-or-nothing. A call
\* that has not finished has produced nothing; a finished call has either
\* returned a record with all six fields, no helper having raised, or raised
\* ExtractionError whose message is the fixed prefix followed by the message
\* of the exception that was raised inside the try block (the blank-input
\* error or the exception of a helper). No other exception kind and no
\* partly assembled record leaves the call.
SingleErrorKindAllOrNothing ==
    /\ xpc # "done" => outcome = NoRet /\ raised = NoRet
    /\ xpc = "done" =>
        \/ /\ outcome.kind = "claim"
           /\ raised = NoRet
           /\ Len(ran) = 1 + Len(Extractors)
           /\ DOMAIN outcome.val = Range(ClaimKeys)
        \/ /\ outcome.kind = "ExtractionError"
           /\ raised # NoRet
           /\ outcome.val = <<"Failed to extract claim data: ", raised.val>>

\* A helper raised after three fields of the record had been built, and the
\* caller got ExtractionError.
FaultAfterThreeFields ==
    /\ xpc = "done"
    /\ raised.kind = "RecursionError"
    /\ Len(ran) = 4
    /\ DOMAIN claim_data = {"patient", "diagnoses", "medications"}
    /\ outcome.kind = "ExtractionError"

\* C13: extract_claim_data is deterministic: the second of two calls on the
\* same text returns what the first returned, the order of the diagnoses and
\* procedures lists included.
SecondCallSameOutput ==
    xpc = "done" /\ previous # NoRet => outcome = previous

\* The currency symbol, digits in groups of three set apart by commas, a
\* point and two digits.
CurrencyFormat(s) ==
    /\ Len(s) >= 5
    /\ s[1] = "₦"
    /\ s[Len(s) - 2] = "."
    /\ s[Len(s) - 1] \in DigitChars
    /\ s[Len(s)] \in DigitChars
    /\ LET whole == SubSeq(s, 2, Len(s) - 3)
       IN  /\ \A k \in 1..Len(whole) : whole[k] \in DigitChars \cup {","}
           /\ whole = Grouped(Without(whole, {","}))

\* C14: in every record that extract_claim_data returns, total_amount is the
\* currency symbol followed by a value with thousands separators and exactly
\* two decimal places, whether an amount pattern matched or the default
\* amount was returned.
TotalAmountCurrencyFormat ==
    Returned => CurrencyFormat(outcome.val.total_amount)

\* C15: in every record that extract_claim_data returns, admission_date and
\* discharge_date are both set or both null.
DatesSetTogether ==
    Returned =>
        (outcome.val.admission.admission_date = None
            <=> outcome.val.admission.discharge_date = None)

\* C16: the patient fallback is all-or-nothing. The patient of a returned
\* record is the default {name: "Jane Doe", age: 34} when neither a name nor
\* an age was extracted from the text, and otherwise holds exactly the fields
\* that were extracted: a name alone or an age alone stands alone, the other
\* field is not taken from the default. So the patient equals the default
\* only where nothing was extracted or the text itself names Jane Doe, 34.
PatientFallbackAllOrNothing ==
    Returned =>
        LET name == ExtractedName(cleaned_text)
            age_str == ExtractedAge(cleaned_text)
            patient == outcome.val.patient
        IN  /\ name = <<>> /\ age_str = <<>> => patient = DefaultPatient
            /\ name # <<>> /\ age_str = <<>> =>
                DOMAIN patient = {"name"} /\ patient.name = title(name)
            /\ name = <<>> /\ age_str # <<>> =>
                DOMAIN patient = {"age"} /\ patient.age = int(age_str)
            /\ name # <<>> /\ age_str # <<>> =>
                /\ DOMAIN patient = {"name", "age"}
                /\ patient.name = title(name)
                /\ patient.age = int(age_str)
            /\ patient = DefaultPatient =>
                \/ name = <<>> /\ age_str = <<>>
                \/ title(name) = DefaultPatient.name /\ int(age_str) = DefaultPatient.age

\* A record for a text that names the patient and gives no age: the patient
\* has the name alone.
NameWithoutAge ==
    /\ Returned
    /\ ExtractedAge(cleaned_text) = <<>>
    /\ outcome.val.patient = [name |-> <<"A", "n", "n">>]

\* C17: for the text with the lines "Diagnosis: Malaria", "Paracetamol 500mg
\* ... 10 tablets" and "Total: 15000", extract_claim_data returns the
\* diagnoses ["Malaria"], a medication Paracetamol / 500mg / 10 tablets and
\* the total_amount "₦15,000.00".
ScenarioExtracted ==
    Returned /\ ocr_text = ScenarioText =>
        /\ outcome.val.diagnoses = <<<<"M", "a", "l", "a", "r", "i", "a">>>>
        /\ \E k \in 1..Len(outcome.val.medications) :
            outcome.val.medications[k] =
                [name |-> <<"P", "a", "r", "a", "c", "e", "t", "a", "m", "o", "l">>, dosage |-> <<"5", "0", "0", "m", "g">>, quantity |-> <<"1", "0", " ", "t", "a", "b", "l", "e", "t", "s">>]
        /\ outcome.val.total_amount = <<"₦", "1", "5", ",", "0", "0", "0", ".", "0", "0">>

\* A numeric string: what is left when the thousands separators, the
\* currency symbols and the surrounding blanks are taken away is a number.
NumericString(s) ==
    Decimal(strip(Without(s, {",", "₦", "$"}))).kind = "number"

\* The currency format, with a minus sign before the digits of a negative
\* value.
SignedCurrencyFormat(s) ==
    \/ CurrencyFormat(s)
    \/ /\ Len(s) >= 2
       /\ s[2] = "-"
       /\ CurrencyFormat(<<s[1]>> \o SubSeq(s, 3, Len(s)))

\* C18: format_currency never raises; for a numeric string, with or without
\* thousands separators and a currency symbol, it returns the currency symbol
\* followed by the value with thousands separators and exactly two decimals,
\* "₦15,000.00" for "15000"; for an empty or non-numeric string it returns
\* the zero amount "₦0.00".
FormatCurrencyFailsClosed ==
    fc_result # NoRet =>
        /\ fc_result.kind = "str"
        /\ fc_amount = <<"1", "5", "0", "0", "0">> => fc_result.val = <<"₦", "1", "5", ",", "0", "0", "0", ".", "0", "0">>
        /\ IF fc_amount # <<>> /\ NumericString(fc_amount)
           THEN SignedCurrencyFormat(fc_result.val)
           ELSE fc_result.val = <<"₦", "0", ".", "0", "0">>

\* C19: store_claim returns the enriched record, the claim fields with the
\* _metadata of document_id, created_at, last_accessed and access_count, and
\* the response of a successful POST /extract has that _metadata next to
\* document_id, ocr_mode and the six claim fields.
StoreClaimReturnsEnriched ==
    \A t \in Threads :
        pc[t] = "exit" /\ call[t].op = "store_claim" =>
            /\ ret[t].kind = "ref"
            /\ ResponseKeys = {"document_id", "ocr_mode", "_metadata"} \cup Range(ClaimKeys)

\* The two requests of a finished exchange were about a stored document.
AskedTwiceOfStored ==
    /\ apc = "done"
    /\ ask_previous # NoRet
    /\ Lookup(StoreKey(ask_request.document_id)) # 0

\* Both responses are 200 and carry the same answer.
SameAnswerTwice ==
    /\ ask_response.status = 200
    /\ ask_previous.response.status = 200
    /\ ask_response.body = ask_previous.response.body

\* C20 as stated: for a stored claim and any two non-empty questions, POST
\* /ask returns the same answer text.
SameAnswerForNonEmptyQuestions ==
    /\ AskedTwiceOfStored
    /\ ask_request.question # <<>>
    /\ ask_previous.request.question # <<>>
    => SameAnswerTwice

\* C20: the answer is independent of the question asked. For a stored claim
\* and any two questions that are not empty or whitespace-only, POST /ask
\* answers both with the same text; it is what answer_question gives for the
\* claim and either question, and what it gives for every claim with the
\* same medications and diagnoses.
SameAnswerForNonBlankQuestions ==
    /\ AskedTwiceOfStored
    /\ ~WhitespaceOnly(ask_request.question)
    /\ ~WhitespaceOnly(ask_previous.request.question)
    => LET claim == ClaimContent[heap[Lookup(StoreKey(ask_request.document_id))].claim]
       IN  /\ SameAnswerTwice
           /\ ask_response.body = answer_question(claim, ask_request.question)
           /\ ask_response.body = answer_question(claim, ask_previous.request.question)
           /\ \A other \in AskClaims :
                /\ ClaimContent[other].medications = claim.medications
                /\ ClaimContent[other].diagnoses = claim.diagnoses
                => answer_question(ClaimContent[other], ask_request.question) = ask_response.body

\* Two different questions about the stored document got the same answer.
TwoQuestionsOneAnswer ==
    /\ AskedTwiceOfStored
    /\ ask_previous.request.question = <<"a">>
    /\ ask_request.question = <<"H", "o", "w", " ", "o", "l", "d", " ", "i", "s", " ", "t", "h", "e", " ", "p", "a", "t", "i", "e", "n", "t", "?">>
    /\ heap[Lookup(StoreKey(ask_request.document_id))].claim = "claimC"
    /\ SameAnswerTwice

\* The request being handled has an empty or whitespace-only document id or
\* question.
BlankRequest ==
    WhitespaceOnly(ask_request.document_id) \/ WhitespaceOnly(ask_request.question)

\* C21: POST /ask answers 400 when document_id or question is empty or
\* whitespace-only, whether or not the document is stored, and then makes no
\* store lookup; otherwise it answers 404 when the document id, any other
\* string, is not in the store, and 200 when it is.
AskStatusByRequest ==
    apc = "done" =>
        /\ BlankRequest =>
            /\ ask_response.status = 400
            /\ ask_steps = <<"validate">>
        /\ ~BlankRequest /\ Lookup(StoreKey(ask_request.document_id)) = 0 =>
            /\ ask_response.status = 404
            /\ ask_steps = <<"validate", "sleep", "get_claim">>
        /\ ~BlankRequest /\ Lookup(StoreKey(ask_request.document_id)) # 0 =>
            ask_response.status = 200

\* A whitespace-only question about a stored document has been answered 400,
\* after another question about the same document was answered 200.
BlankQuestionOfStoredDocument ==
    /\ apc = "done"
    /\ ask_previous # NoRet
    /\ ask_request.question = <<" ">>
    /\ Lookup(StoreKey(ask_request.document_id)) # 0
    /\ ask_response.status = 400
    /\ ask_previous.response.status = 200

\* ------------------------------------------------------------------ C22

\* C22: the step of POST /extract that answers 200 adds exactly one entry to
\* the store, under an id that no earlier request was given and that its
\* response returns, and leaves every other entry and its record as they
\* were; the steps of a request that end it at validation, OCR or
\* extraction, and every step before the storing one, leave the store and
\* its records unchanged.
ExtractStoresOneNewDocument ==
    [][/\ (ppc = "store" /\ ppc' = "done") =>
            /\ post_response'.status = 200
            /\ \E i \in DocumentIds \ issued :
                /\ i \notin DOMAIN CLAIM_STORE
                /\ post_response'.body = <<i>>
                /\ issued' = issued \cup {i}
                /\ DOMAIN CLAIM_STORE' = DOMAIN CLAIM_STORE \cup {i}
                /\ Cardinality(DOMAIN CLAIM_STORE') = Cardinality(DOMAIN CLAIM_STORE) + 1
                /\ heap'[CLAIM_STORE'[i]].claim = upload.claim
            /\ \A k \in DOMAIN CLAIM_STORE :
                /\ CLAIM_STORE'[k] = CLAIM_STORE[k]
                /\ heap'[CLAIM_STORE[k]] = heap[CLAIM_STORE[k]]
       /\ ppc \in {"validate", "ocr", "extract"} =>
            /\ UNCHANGED <<CLAIM_STORE, heap, issued>>
            /\ ppc' = "done" => post_response'.status \in {400, 422}
       /\ (/\ post_response' # post_response
           /\ post_response'.kind = "response"
           /\ post_response'.status = 200) => ppc = "store"
      ]_vars

\* Two requests to /extract have succeeded and the store holds both documents.
SecondDocumentStored ==
    /\ ppc = "done"
    /\ post_response.status = 200
    /\ Cardinality(issued) = 2
    /\ Cardinality(DOMAIN CLAIM_STORE) = 2
    /\ post_response.body[1] \in DOMAIN CLAIM_STORE

\* ------------------------------------------------------------------ C23

\* The words of a text: its maximal runs of characters that are not
\* whitespace, in order.
RECURSIVE WordsOf(_)
WordsOf(text) ==
    LET rest == lstrip(text)
        n == IF \E k \in 1..Len(rest) : IsSpace(rest[k])
             THEN (CHOOSE k \in 1..Len(rest) : IsSpace(rest[k]) /\ \A j \in 1..(k - 1) : ~IsSpace(rest[j])) - 1
             ELSE Len(rest)
    IN  IF rest = <<>> THEN <<>>
        ELSE <<SubSeq(rest, 1, n)>> \o WordsOf(SubSeq(rest, n + 1, Len(rest)))

\* The words, with one space between each two.
RECURSIVE SpaceJoined(_)
SpaceJoined(words) ==
    IF words = <<>> THEN <<>>
    ELSE IF Len(words) = 1 THEN words[1]
    ELSE words[1] \o <<" ">> \o SpaceJoined(Tail(words))

\* The character the normalizer writes for c.
Corrected(c) == IF c = "|" THEN "I" ELSE IF c = "0" THEN "O" ELSE c

\* C23: the text handed to the field extractors is the words of the OCR text
\* in order, one space between each two and none at either end, with every
\* '|' written 'I' and every '0' written 'O' and every other character kept;
\* it holds no '0' and no '|', and normalizing it again changes nothing.
CleanedTextNormalized ==
    cleaned_text # None =>
        /\ cleaned_text = [k \in 1..Len(SpaceJoined(WordsOf(ocr_text))) |->
                               Corrected(SpaceJoined(WordsOf(ocr_text))[k])]
        /\ cleaned_text # <<>> => ~IsSpace(cleaned_text[1]) /\ ~IsSpace(cleaned_text[Len(cleaned_text)])
        /\ \A k \in 1..Len(cleaned_text) :
            /\ cleaned_text[k] \notin {"0", "|", "\n", "\t", "\r"}
            /\ k > 1 /\ cleaned_text[k] = " " => cleaned_text[k - 1] # " "
        /\ clean_ocr_text(cleaned_text) = cleaned_text

\* A text with a run of whitespace inside, whitespace at an end, a '0' and a
\* '|' has been normalized.
RunZeroAndBarNormalized ==
    /\ cleaned_text # None
    /\ Len(ocr_text) > Len(cleaned_text)
    /\ IsSpace(ocr_text[1]) \/ IsSpace(ocr_text[Len(ocr_text)])
    /\ \E k \in 1..Len(ocr_text) : ocr_text[k] = "0"
    /\ \E k \in 1..Len(cleaned_text) : cleaned_text[k] = "O"
    /\ \E k \in 1..Len(ocr_text) : ocr_text[k] = "|"
    /\ \E k \in 2..Len(ocr_text) : IsSpace(ocr_text[k]) /\ IsSpace(ocr_text[k - 1])
    /\ \E k \in 2..(Len(cleaned_text) - 1) : cleaned_text[k] = " "

\* ------------------------------------------------------------------ C24

\* The shape YYYY-MM-DD.
IsoDate(text) ==
    /\ Len(text) = 10
    /\ text[5] = "-" /\ text[8] = "-"
    /\ \A k \in {1, 2, 3, 4, 6, 7, 9, 10} : text[k] \in DigitChars

\* C24: _normalize_date returns, for the first format of the list that
\* parses the string (day first before month first, '/' with a four-digit
\* year, then '-', then '/' with a two-digit year), the date it parsed as
\* YYYY-MM-DD, "10/06/2023" giving "2023-06-10", and returns a string that
\* no format parses unchanged.
NormalizedToIsoDate ==
    nd_result # NoRet =>
        LET formats == <<strptime(nd_date_str, "/", TRUE, TRUE), strptime(nd_date_str, "/", FALSE, TRUE),
                         strptime(nd_date_str, "-", TRUE, TRUE), strptime(nd_date_str, "-", FALSE, TRUE),
                         strptime(nd_date_str, "/", TRUE, FALSE), strptime(nd_date_str, "/", FALSE, FALSE)>>
            parsed == {k \in 1..Len(formats) : formats[k].ok}
            first == formats[Min(parsed)]
        IN  /\ nd_result.kind = "str"
            /\ parsed = {} => nd_result.val = nd_date_str
            /\ parsed # {} =>
                /\ IsoDate(nd_result.val)
                /\ int(SubSeq(nd_result.val, 1, 4)) = first.year
                /\ int(SubSeq(nd_result.val, 6, 7)) = first.month
                /\ int(SubSeq(nd_result.val, 9, 10)) = first.day
            /\ nd_date_str = <<"1", "0", "/", "0", "6", "/", "2", "0", "2", "3">> => nd_result.val = <<"2", "0", "2", "3", "-", "0", "6", "-", "1", "0">>

\* ------------------------------------------------------------------ C25

\* One of the admission indicators occurs in the text as a whole word.
IndicatorPresent(text) ==
    \E k \in 1..Len(admission_indicators) : HasWord(text, admission_indicators[k])

AskStepOrder == <<"validate", "sleep", "get_claim", "answer_question">>

\* C26: the handler of /ask does its steps in the order validation, delay,
\* lookup, answer. get_claim is called only after the delay and once for
\* every request that passes validation; it looks the document up in the
\* store as it is after the delay, so a document removed during the delay is
\* not found and one stored during the delay is; a lookup that finds the
\* document raises its access_count by exactly 1, and no other step of the
\* handler, in particular none of a rejected request, changes the store or
\* the access metadata.
AskStepsInOrder ==
    [][/\ Len(ask_steps') <= 4 /\ ask_steps' = SubSeq(AskStepOrder, 1, Len(ask_steps'))
       /\ ask_steps' # ask_steps /\ ask_steps' # <<>> =>
            LET key == StoreKey(ask_request.document_id)
            IN  IF ask_steps'[Len(ask_steps')] = "get_claim" /\ key \in DOMAIN CLAIM_STORE
                THEN /\ ask_steps = <<"validate", "sleep">>
                     /\ ~BlankRequest
                     /\ apc' = "answer"
                     /\ ask_claim' = CLAIM_STORE[key]
                     /\ CLAIM_STORE' = CLAIM_STORE
                     /\ heap'[CLAIM_STORE[key]].metadata.access_count
                            = heap[CLAIM_STORE[key]].metadata.access_count + 1
                     /\ heap'[CLAIM_STORE[key]].claim = heap[CLAIM_STORE[key]].claim
                     /\ \A r \in DOMAIN heap \ {CLAIM_STORE[key]} : heap'[r] = heap[r]
                ELSE /\ UNCHANGED <<CLAIM_STORE, heap>>
                     /\ ask_steps'[Len(ask_steps')] = "get_claim" =>
                            /\ ask_steps = <<"validate", "sleep">>
                            /\ apc' = "done" /\ ask_response'.status = 404
       /\ apc' = "done" /\ apc # "done" =>
            /\ ask_response'.status = 400 <=> ask_steps' = <<"validate">>
            /\ ask_response'.status = 404 <=> ask_steps' = <<"validate", "sleep", "get_claim">>
            /\ ask_response'.status = 200 <=> ask_steps' = AskStepOrder
            /\ ~BlankRequest => ask_steps'[3] = "get_claim"
      ]_vars

\* A second request about a document that the first one found is answered
\* 404: the document was removed while the second request waited.
RemovedDuringDelay ==
    /\ apc = "done"
    /\ ask_previous # NoRet
    /\ ask_previous.response.status = 200
    /\ ask_response.status = 404
    /\ StoreKey(ask_request.document_id) \in issued

\* ------------------------------------------------------------------ C27

\* C27: the documents_in_storage gauge is accurate: after every store_claim,
\* delete_claim and clear_all_claims and after every GET /health/storage it
\* equals the number of documents in the store.
GaugeCountsDocuments ==
    DOCUMENTS_IN_STORAGE = Cardinality(DOMAIN CLAIM_STORE)

\* ------------------------------------------------------------------ C28

\* C28: the lock is held exactly while one thread is inside the `with` block
\* of a store operation, so every exit, by return or by get_claim raising
\* DocumentNotFoundError, has released it; a thread takes the lock only when
\* no thread holds it, so none takes it while holding it; and under fair
\* scheduling every operation that was invoked completes, whoever holds the
\* lock when it is invoked.
LockReleasedAndCallsComplete ==
    /\ [](STORAGE_LOCK <=> \E t \in Threads : InCS(t))
    /\ [](\A t1, t2 \in Threads : InCS(t1) /\ InCS(t2) => t1 = t2)
    /\ [][\A t \in Threads :
            /\ ~InCS(t) /\ InCS(t)' => ~STORAGE_LOCK /\ pc[t] = "acquire"
            /\ pc[t] = "exit" /\ pc'[t] # "exit" => pc'[t] = "idle" /\ ~STORAGE_LOCK']_vars
    /\ \A t \in Threads : (pc[t] = "acquire") ~> (pc[t] = "idle")
    /\ \A t \in Threads :
        (pc[t] = "exit" /\ ret[t].kind = "DocumentNotFoundError") ~> (pc[t] = "idle" /\ ~InCS(t))

\* A get_claim has raised DocumentNotFoundError and is about to leave the
\* `with` block while the other thread waits for the lock.
RaisedWhileOtherWaits ==
    \E t, u \in Threads :
        /\ pc[t] = "exit" /\ call[t].op = "get_claim" /\ ret[t].kind = "DocumentNotFoundError"
        /\ pc[u] = "acquire"
        /\ STORAGE_LOCK

\* ------------------------------------------------------------------ C29

\* Thread t holds the record its last get_claim returned.
Holds(t) == pc[t] = "idle" /\ ret[t].kind = "ref"

\* The record is the one stored under some id.
StoredRecord(r) == \E i \in DOMAIN CLAIM_STORE : CLAIM_STORE[i] = r

\* C29: get_claim hands out the stored record itself. While the record a
\* caller holds is still the one stored under its id, a later get_claim on
\* that id by another caller changes the held record: its access_count and
\* last_accessed are the new stored values, the count being the number of
\* successful reads of the id. Once store_claim has replaced the record or
\* delete_claim or clear_all_claims has removed it, the held record changes
\* no more.
ReturnedRecordIsTheStoredOne ==
    /\ [](\A t \in Threads : \A i \in DOMAIN CLAIM_STORE :
            Holds(t) /\ CLAIM_STORE[i] = ret[t].val /\ (\A u \in Threads : ~InCS(u)) =>
                /\ Metadata(i) = heap[ret[t].val].metadata
                /\ heap[ret[t].val].metadata.access_count = reads[i])
    /\ [][\A t, u \in Threads :
            /\ Holds(t) /\ Steps(u, "get_touch") /\ local[u] = ret[t].val =>
                heap'[ret[t].val].metadata.last_accessed = isoformat(utcnow(clock'))
            /\ Holds(t) /\ Steps(u, "get_incr_store") /\ local[u] = ret[t].val =>
                /\ StoredRecord(ret[t].val)
                /\ heap'[ret[t].val].metadata.access_count
                       = heap[ret[t].val].metadata.access_count + 1
            /\ Holds(t) /\ Holds(t)' /\ ~StoredRecord(ret[t].val) =>
                /\ ret'[t] = ret[t]
                /\ ret[t].val \in DOMAIN heap'
                /\ heap'[ret[t].val] = heap[ret[t].val]
                /\ ~StoredRecord(ret[t].val)']_vars

\* The record that one caller was given with access_count 1 shows 2 after
\* another caller's get_claim on the same id: both hold the stored record.
EarlierRecordShowsLaterRead ==
    \E t, u \in Threads : \E i \in DOMAIN CLAIM_STORE :
        /\ t # u /\ Holds(t) /\ Holds(u)
        /\ ret[t].val = CLAIM_STORE[i] /\ ret[u].val = CLAIM_STORE[i]
        /\ heap[ret[t].val].metadata.access_count = 2
        /\ reads[i] = 2

\* ------------------------------------------------------------------ C30

\* The number of errors counted for /ask, over all error_type labels.
ErrorsCounted == SumOver(ERROR_COUNTER, ErrorTypes)

\* C30: the handler of /ask counts each failed request exactly once: the
\* step that ends a request with an error status raises errors_total by
\* exactly 1, under a single error_type label, and no other step of the
\* handler, a successful request's included, raises it.
EachFailureCountedOnce ==
    [][/\ ErrorsCounted' =
            IF apc # "done" /\ apc' = "done" /\ ask_response'.status # 200
            THEN ErrorsCounted + 1
            ELSE ErrorsCounted
       /\ Cardinality({e \in ErrorTypes : ERROR_COUNTER'[e] # ERROR_COUNTER[e]}) <= 1
      ]_vars

====
